---- MODULE Spec2Model ----
(***************************************************************************)
(* Installation-reference lifecycle of the notification bot:               *)
(*   - getKey and NotificationMiddleware (notification/middleware.ts),     *)
(*   - LocalConversationReferenceStore (notification/storage.ts),          *)
(*   - NotificationBot.validateInstallation / getPagedInstallations        *)
(*     (notification/notification.ts).                                     *)
(*                                                                         *)
(* Strings are TLA+ strings, compared and concatenated as the code does.   *)
(* The one string the code transforms character by character, the action   *)
(* of an installationUpdate activity, is a sequence of one-character       *)
(* strings.  JavaScript's undefined is the value Undefined, which is not   *)
(* an id the platform sends.                                               *)
(***************************************************************************)
EXTENDS Naturals, Sequences, FiniteSets, TLC

VARIABLES
    file,        \* the backing file of LocalConversationReferenceStore
    op,          \* the operation that ran last
    pre,         \* the backing file when that operation started
    received,    \* the activity the last turn received
    activity,    \* context.activity when the last turn ended
    classified,  \* what classifyActivity returned in the last turn
    calls,       \* the store calls the last operation issued, in order
    nextCalls,   \* how often the last turn invoked next()
    outcome,     \* how the last operation ended
    validation,  \* validationEnabled of the last getPagedInstallations
    listed,      \* the references the store listed to that call
    probes,      \* the liveness probes of the last operation, in order
    result,      \* what the last operation returned
    args,        \* the arguments of the last call of the store or of a target
    prior,       \* for a read of the store, the call before it and how it ended
    effects      \* what the last call did to the platform and the caller

vars == <<file, op, pre, received, activity, classified, calls, nextCalls,
          outcome, validation, listed, probes, result, args, prior, effects>>

----------------------------------------------------------------------------
(* Bounds *)

\* The middleware is not run on an event that would make the store hold
\* more than MaxStore references.
MaxStore == 2

\* The loop of installations() is not followed past MaxPages pages.
MaxPages == 3

----------------------------------------------------------------------------
(* Values *)

Undefined == "<undefined>"

\* undefined rendered as the empty string
TemplateString_EmptyWhenAbsent(x) == IF x = Undefined THEN "" ELSE x

\* `${x}` of a string or undefined
TemplateString(x) == IF x = Undefined THEN "undefined" ELSE x

UndefinedAction == <<Undefined>>

UpperCaseLetters ==
    <<"A","B","C","D","E","F","G","H","I","J","K","L","M",
      "N","O","P","Q","R","S","T","U","V","W","X","Y","Z">>
LowerCaseLetters ==
    <<"a","b","c","d","e","f","g","h","i","j","k","l","m",
      "n","o","p","q","r","s","t","u","v","w","x","y","z">>

toLowerCaseChar(c) ==
    IF \E i \in 1..Len(UpperCaseLetters) : UpperCaseLetters[i] = c
    THEN LowerCaseLetters[CHOOSE i \in 1..Len(UpperCaseLetters) : UpperCaseLetters[i] = c]
    ELSE c

\* The action compared as it is, without lowering its case
toLowerCase_CaseSensitive(s) == s

\* activity.action?.toLowerCase()
toLowerCase(s) ==
    IF s = UndefinedAction THEN UndefinedAction
    ELSE [i \in 1..Len(s) |-> toLowerCaseChar(s[i])]

----------------------------------------------------------------------------
(* Activities and conversation references *)

InstallationUpdate == "installationUpdate"
ConversationUpdate == "conversationUpdate"
Message == "message"

\* activity.conversation of the events the model receives: a chat seen as
\* personal and as group chat, a channel thread of team TEAM1, the team's
\* own conversation, and a conversation without tenant or type.
Conversation(tenantId, id, conversationType) ==
    [tenantId |-> tenantId, id |-> id, conversationType |-> conversationType]

Conversations ==
    { Conversation("T1", "C1", "personal"),
      Conversation("T1", "C1", "groupChat"),
      Conversation("T1", "CH2", "channel"),
      Conversation("T1", "TEAM1", "channel"),
      Conversation(Undefined, "C1", Undefined) }

\* activity.id and activity.conversation of those events
Sources ==
    { <<"a1", c>> : c \in Conversations }
    \cup { <<"a2", Conversation("T1", "C1", "personal")>> }

Actions ==
    { UndefinedAction,
      <<"a","d","d">>,
      <<"A","d","d">>,
      <<"A","D","D","-","U","p","g","r","a","d","e">>,
      <<"r","e","m","o","v","e">> }

EventTypes == {Undefined, "teamDeleted", "teamRestored", "TeamDeleted", "teamRenamed"}

TeamIds == {Undefined, "TEAM1"}
ChannelIds == {Undefined, "TEAM1", "CH2"}

Activity(type, action, eventType, teamId, channelId, source) ==
    [type |-> type, action |-> action, eventType |-> eventType,
     teamId |-> teamId, channelId |-> channelId, id |-> source[1],
     conversation |-> source[2]]

\* The inbound activities: every value of the fields the middleware reads
\* for the activity's type, and some activities that also carry the fields
\* it reads for another type.
Activities ==
    { Activity(InstallationUpdate, a, Undefined, Undefined, Undefined, s) :
        a \in Actions, s \in Sources }
    \cup
    { Activity(ConversationUpdate, UndefinedAction, e, Undefined, Undefined, s) :
        e \in EventTypes, s \in Sources }
    \cup
    { Activity(Message, UndefinedAction, Undefined, t, ch, s) :
        t \in TeamIds, ch \in ChannelIds,
        s \in {x \in Sources : x[2].conversationType = "channel"} }
    \cup
    { Activity(Message, UndefinedAction, Undefined, Undefined, Undefined, s) :
        s \in Sources }
    \cup
    { Activity("typing", UndefinedAction, Undefined, Undefined, Undefined, s) :
        s \in Sources }
    \cup
    { Activity(InstallationUpdate, <<"a","d","d">>, "teamDeleted", "TEAM1", "TEAM1",
               <<"a1", Conversation("T1", "TEAM1", "channel")>>),
      Activity(ConversationUpdate, <<"a","d","d">>, "teamRenamed", "TEAM1", "TEAM1",
               <<"a1", Conversation("T1", "TEAM1", "channel")>>),
      Activity(Message, <<"a","d","d">>, "teamDeleted", "TEAM1", "CH2",
               <<"a1", Conversation("T1", "C1", "groupChat")>>),
      Activity("typing", <<"a","d","d">>, "teamRestored", "TEAM1", "TEAM1",
               <<"a1", Conversation("T1", "C1", "personal")>>) }

\* context.activity.getConversationReference(): the reference holds the
\* activity's own conversation object.
getConversationReference(a) ==
    [activityId |-> a.id, conversation |-> a.conversation]

\* The conversation type rendered into the key as well
getKey_WithType(reference) ==
    "_" \o TemplateString(reference.conversation.tenantId)
        \o "_" \o TemplateString(reference.conversation.id)
        \o "_" \o TemplateString(reference.conversation.conversationType)

\* `_${reference.conversation?.tenantId}_${reference.conversation?.id}`; a
\* reference without a conversation reads as one whose conversation has
\* neither
getKey(reference) ==
    "_" \o TemplateString(reference.conversation.tenantId)
        \o "_" \o TemplateString(reference.conversation.id)

----------------------------------------------------------------------------
(* LocalConversationReferenceStore *)

\* The backing file: absent, holding a serialized object (its entries in
\* property order), unreadable, or holding text that is not JSON.
NoFile == [state |-> "absent", data |-> <<>>]
ObjectFile(data) == [state |-> "object", data |-> data]
UnreadableFile == [state |-> "unreadable", data |-> <<>>]
InvalidFile == [state |-> "invalid", data |-> <<>>]

Entry(key, value) == [key |-> key, value |-> value]

Keys(data) == {data[i].key : i \in 1..Len(data)}
HasKey(data, key) == key \in Keys(data)
Get(data, key) == data[CHOOSE i \in 1..Len(data) : data[i].key = key].value

storeFileExists(f) == f.state # "absent"

\* resolves with the parsed object; rejects when fs.readFile reports an
\* error; when JSON.parse throws, it throws inside the fs.readFile callback,
\* outside the try block, and the promise never settles.
readFromFile(f) ==
    CASE f.state = "object" -> [outcome |-> "resolved", data |-> f.data]
      [] f.state = "unreadable" -> [outcome |-> "rejected", data |-> <<>>]
      [] f.state = "invalid" -> [outcome |-> "uncaught", data |-> <<>>]

\* The activityId of each reference lost on the way through the file
JsonRoundTrip_LosingActivityId(data) ==
    [i \in 1..Len(data) |->
        [key |-> data[i].key,
         value |-> [activityId |-> Undefined,
                    conversation |-> data[i].value.conversation]]]

\* JSON.parse(JSON.stringify(data, undefined, 2)) of an object of
\* references: the properties in their order, each value serialized and
\* parsed like a reference
JsonRoundTrip(data) ==
    [i \in 1..Len(data) |->
        [key |-> data[i].key,
         value |-> [activityId |-> data[i].value.activityId,
                    conversation |->
                        [tenantId |-> data[i].value.conversation.tenantId,
                         id |-> data[i].value.conversation.id,
                         conversationType |->
                             data[i].value.conversation.conversationType]]]]

\* The file holds JSON.stringify(data), which the next readFromFile parses
writeToFile(data) == ObjectFile(JsonRoundTrip(data))

\* A write that adds an entry without looking for the key
AssignProperty_Duplicating(data, key, value) == Append(data, Entry(key, value))

\* Object.assign(data, changes): an own property keeps its place and takes
\* the new value, a new property goes last.
AssignProperty(data, key, value) ==
    IF HasKey(data, key)
    THEN [i \in 1..Len(data) |->
            IF data[i].key = key THEN Entry(key, value) ELSE data[i]]
    ELSE Append(data, Entry(key, value))

RECURSIVE ObjectAssign(_, _)
ObjectAssign(data, changes) ==
    IF changes = <<>> THEN data
    ELSE ObjectAssign(AssignProperty(data, Head(changes).key, Head(changes).value),
                      Tail(changes))

\* Only the first of the keys deleted
DeleteProperties_FirstKey(data, keys) ==
    SelectSeq(data, LAMBDA e : keys = <<>> \/ keys[1] # e.key)

\* for (const key of keys) if (data[key] !== undefined) delete data[key]
DeleteProperties(data, keys) ==
    SelectSeq(data, LAMBDA e : \A i \in 1..Len(keys) : keys[i] # e.key)

\* The file rewritten with the changes alone
write_Overwriting(f, changes) ==
    IF storeFileExists(f) /\ readFromFile(f).outcome # "resolved"
    THEN [file |-> f, outcome |-> readFromFile(f).outcome]
    ELSE [file |-> writeToFile(ObjectAssign(<<>>, changes)), outcome |-> "resolved"]

\* write(changes), changes an object given as its entries in property order
write(f, changes) ==
    IF ~storeFileExists(f)
    THEN [file |-> writeToFile(ObjectAssign(<<>>, changes)), outcome |-> "resolved"]
    ELSE LET r == readFromFile(f)
         IN  IF r.outcome # "resolved"
             THEN [file |-> f, outcome |-> r.outcome]
             ELSE [file |-> writeToFile(ObjectAssign(r.data, changes)),
                   outcome |-> "resolved"]

\* delete(keys)
delete(f, keys) ==
    IF ~storeFileExists(f)
    THEN [file |-> f, outcome |-> "resolved"]
    ELSE LET r == readFromFile(f)
         IN  IF r.outcome # "resolved"
             THEN [file |-> f, outcome |-> r.outcome]
             ELSE [file |-> writeToFile(DeleteProperties(r.data, keys)),
                   outcome |-> "resolved"]

\* The entries of data that keys names, in the order in which keys first
\* names them: result[key] = data[key] for each key with data[key] defined
RECURSIVE ReadProperties(_, _, _)
ReadProperties(data, keys, found) ==
    IF keys = <<>> THEN found
    ELSE ReadProperties(
            data, Tail(keys),
            IF HasKey(data, Head(keys))
            THEN AssignProperty(found, Head(keys), Get(data, Head(keys)))
            ELSE found)

\* The whole object returned, whatever the keys
read_Everything(f, keys) ==
    IF ~storeFileExists(f)
    THEN [outcome |-> "resolved", result |-> <<>>]
    ELSE [outcome |-> readFromFile(f).outcome, result |-> readFromFile(f).data]

\* read(keys), the result an object given as its entries in property order
read(f, keys) ==
    IF ~storeFileExists(f)
    THEN [outcome |-> "resolved", result |-> <<>>]
    ELSE LET r == readFromFile(f)
         IN  IF r.outcome # "resolved"
             THEN [outcome |-> r.outcome, result |-> <<>>]
             ELSE [outcome |-> "resolved",
                   result |-> ReadProperties(r.data, keys, <<>>)]

\* A page of at most pageSize references, and no token for the rest
list_Truncating(f, pageSize, continuationToken) ==
    IF ~storeFileExists(f)
    THEN [outcome |-> "resolved", data |-> <<>>, continuationToken |-> ""]
    ELSE LET r == readFromFile(f)
             n == IF pageSize = <<>> \/ pageSize[1] > Len(r.data)
                  THEN Len(r.data) ELSE pageSize[1]
         IN  [outcome |-> r.outcome,
              data |-> [i \in 1..n |-> r.data[i].value],
              continuationToken |-> ""]

\* list(pageSize, continuationToken)
list(f, pageSize, continuationToken) ==
    IF ~storeFileExists(f)
    THEN [outcome |-> "resolved", data |-> <<>>, continuationToken |-> ""]
    ELSE LET r == readFromFile(f)
         IN  IF r.outcome # "resolved"
             THEN [outcome |-> r.outcome, data |-> <<>>, continuationToken |-> ""]
             ELSE [outcome |-> "resolved",
                   data |-> [i \in 1..Len(r.data) |-> r.data[i].value],
                   continuationToken |-> ""]

----------------------------------------------------------------------------
(* NotificationMiddleware *)

CurrentBotInstalled == "CurrentBotInstalled"
CurrentBotMessaged == "CurrentBotMessaged"
CurrentBotUninstalled == "CurrentBotUninstalled"
TeamDeleted == "TeamDeleted"
TeamRestored == "TeamRestored"
Unknown == "Unknown"

ActivityType ==
    {CurrentBotInstalled, CurrentBotMessaged, CurrentBotUninstalled,
     TeamDeleted, TeamRestored, Unknown}

\* action === "add" || action === "add-upgrade"
IsAddAction(action) ==
    \/ action = <<"a","d","d">>
    \/ action = <<"a","d","d","-","u","p","g","r","a","d","e">>

\* A conversation update that is no team deletion taken for a restoration
classifyConversationUpdate_RestoredByDefault(eventType) ==
    IF eventType = "teamDeleted" THEN TeamDeleted ELSE TeamRestored

\* The conversationUpdate branch of classifyActivity; an event type it does
\* not name falls through to the final return.
classifyConversationUpdate(eventType) ==
    IF eventType = "teamDeleted" THEN TeamDeleted
    ELSE IF eventType = "teamRestored" THEN TeamRestored
    ELSE Unknown

\* Only installation updates classified, every other event Unknown
classifyActivity_InstallationOnly(a) ==
    IF a.type = InstallationUpdate
    THEN IF IsAddAction(toLowerCase(a.action))
         THEN CurrentBotInstalled
         ELSE CurrentBotUninstalled
    ELSE Unknown

classifyActivity(a) ==
    IF a.type = InstallationUpdate
    THEN IF IsAddAction(toLowerCase(a.action))
         THEN CurrentBotInstalled
         ELSE CurrentBotUninstalled
    ELSE IF a.type = ConversationUpdate
    THEN classifyConversationUpdate(a.eventType)
    ELSE IF a.type = Message THEN CurrentBotMessaged
    ELSE Unknown

WriteCall(changes) == [op |-> "write", changes |-> changes, keys |-> <<>>]
DeleteCall(keys) == [op |-> "delete", changes |-> <<>>, keys |-> keys]

\* What a step of the middleware leaves behind: the file, the store calls
\* issued, how its awaited store call ended, and context.activity.
Handled(f, storeCalls, o, a) ==
    [file |-> f, calls |-> storeCalls, outcome |-> o, activity |-> a]

\* await this.conversationReferenceStore.write({[getKey(reference)]: reference})
WriteReference(f, a, reference) ==
    LET changes == <<Entry(getKey(reference), reference)>>
        w == write(f, changes)
    IN  Handled(w.file, <<WriteCall(changes)>>, w.outcome, a)

\* await this.conversationReferenceStore.delete([getKey(reference)])
DeleteReference(f, a, reference) ==
    LET keys == <<getKey(reference)>>
        d == delete(f, keys)
    IN  Handled(d.file, <<DeleteCall(keys)>>, d.outcome, a)

\* Every channel of a team taken for its General channel
IsTeamLevelMessage_AnyChannel(teamId, channelId) == teamId # Undefined

\* teamId !== undefined && (channelId === undefined || teamId === channelId)
IsTeamLevelMessage(teamId, channelId) ==
    teamId # Undefined /\ (channelId = Undefined \/ teamId = channelId)

\* JSON.parse(JSON.stringify(reference)): a new object with the same
\* string-valued properties; undefined-valued properties are dropped, and
\* read back as undefined.
JsonClone(reference) ==
    [activityId |-> reference.activityId,
     conversation |-> [tenantId |-> reference.conversation.tenantId,
                       id |-> reference.conversation.id,
                       conversationType |-> reference.conversation.conversationType]]

\* The team id assigned to the reference itself, whose conversation is the
\* activity's conversation object
AddTeamReference_NoClone(f, a, reference, teamId) ==
    LET teamReference == [reference EXCEPT !.conversation.id = teamId]
    IN  WriteReference(f, [a EXCEPT !.conversation.id = teamId], teamReference)

\* The team-level reference written under the key of the channel's own
\* reference
AddTeamReference_KeyOfChannel(f, a, reference, teamId) ==
    LET teamReference == [JsonClone(reference) EXCEPT !.conversation.id = teamId]
        changes == <<Entry(getKey(reference), teamReference)>>
        w == write(f, changes)
    IN  Handled(w.file, <<WriteCall(changes)>>, w.outcome, a)

\* The team-level reference is written; the assignment to
\* teamReference.conversation.id reaches context.activity.conversation only
\* if teamReference shares that object, which a clone does not.
AddTeamReference(f, a, reference, teamId) ==
    LET teamReference == [JsonClone(reference) EXCEPT !.conversation.id = teamId]
    IN  WriteReference(f, a, teamReference)

\* A message of any conversation type but channel tracked like a chat
tryAddMessagedReference_AnyType(f, a) ==
    LET reference == getConversationReference(a)
    IN  IF reference.conversation.conversationType = "channel"
        THEN IF IsTeamLevelMessage(a.teamId, a.channelId)
             THEN AddTeamReference(f, a, reference, a.teamId)
             ELSE Handled(f, <<>>, "resolved", a)
        ELSE WriteReference(f, a, reference)

tryAddMessagedReference(f, a) ==
    LET reference == getConversationReference(a)
        conversationType == reference.conversation.conversationType
    IN  IF conversationType = "personal" \/ conversationType = "groupChat"
        THEN WriteReference(f, a, reference)
        ELSE IF conversationType = "channel"
        THEN IF IsTeamLevelMessage(a.teamId, a.channelId)
             THEN AddTeamReference(f, a, reference, a.teamId)
             ELSE Handled(f, <<>>, "resolved", a)
        ELSE Handled(f, <<>>, "resolved", a)

\* TeamRestored handled in the case of TeamDeleted
HandleActivity_RestoredDeletes(f, a, type) ==
    IF type = CurrentBotInstalled
    THEN WriteReference(f, a, getConversationReference(a))
    ELSE IF type = CurrentBotMessaged
    THEN tryAddMessagedReference(f, a)
    ELSE IF type \in {CurrentBotUninstalled, TeamDeleted, TeamRestored}
    THEN DeleteReference(f, a, getConversationReference(a))
    ELSE Handled(f, <<>>, "resolved", a)

\* The switch of onTurn
HandleActivity(f, a, type) ==
    IF type \in {CurrentBotInstalled, TeamRestored}
    THEN WriteReference(f, a, getConversationReference(a))
    ELSE IF type = CurrentBotMessaged
    THEN tryAddMessagedReference(f, a)
    ELSE IF type \in {CurrentBotUninstalled, TeamDeleted}
    THEN DeleteReference(f, a, getConversationReference(a))
    ELSE Handled(f, <<>>, "resolved", a)

\* next() left out of the default branch
NextCalls_NotByDefault(h) ==
    IF h.outcome = "resolved" /\ h.calls # <<>> THEN 1 ELSE 0

\* await next() is reached when the awaited store call, if any, resolved
NextCalls(h) == IF h.outcome = "resolved" THEN 1 ELSE 0

\* A step of a turn: a store call that has ended, or the call of next(),
\* with the backing file as it is then
TurnStep(step, f) == [step |-> step, file |-> f]

\* next() called before the store call is made
TurnSteps_NextFirst(f, h) ==
    (IF NextCalls(h) = 1 THEN <<TurnStep("next", f)>> ELSE <<>>)
    \o [i \in 1..Len(h.calls) |-> TurnStep(h.calls[i].op, h.file)]

\* The steps of onTurn in order: the store call of the switch is awaited,
\* then next() is
TurnSteps(f, h) ==
    [i \in 1..Len(h.calls) |-> TurnStep(h.calls[i].op, h.file)]
    \o (IF NextCalls(h) = 1 THEN <<TurnStep("next", h.file)>> ELSE <<>>)

onTurn(f, a) ==
    LET type == classifyActivity(a)
        h == HandleActivity(f, a, type)
    IN  [file |-> h.file, classified |-> type, calls |-> h.calls,
         steps |-> TurnSteps(f, h),
         activity |-> h.activity, nextCalls |-> NextCalls(h),
         outcome |-> IF h.outcome = "resolved" THEN "returned" ELSE h.outcome]

----------------------------------------------------------------------------
(* NotificationBot *)

\* How the liveness probe, TeamsInfo.getPagedMembers(context, 1), ends:
\* with a page of members, or by throwing an error that may carry a code.
ProbeOk == [error |-> FALSE, code |-> Undefined]
ProbeError(code) == [error |-> TRUE, code |-> code]
ProbeOutcomes ==
    {ProbeOk, ProbeError("BotNotInConversationRoster"),
     ProbeError("ConversationNotFound"), ProbeError(Undefined)}

\* Every error of the probe taken for the sign of removal
IsNotInRoster_AnyError(probe) == probe.error

\* The catch block of validateInstallation
IsNotInRoster(probe) == probe.error /\ probe.code = "BotNotInConversationRoster"

validateInstallation(reference, probe) ==
    [isValid |-> ~IsNotInRoster(probe), outcome |-> "returned"]

\* Every installation typed as a personal chat
TeamsBotInstallation_Personal(reference) ==
    [conversationReference |-> reference, type |-> "personal"]

\* new TeamsBotInstallation(adapter, reference, botAppId)
TeamsBotInstallation(reference) ==
    [conversationReference |-> reference,
     type |-> reference.conversation.conversationType]

Probe(reference, probe) == [reference |-> reference, probe |-> probe]

\* A stale reference dropped from the page but left in the store
VisitReference_NoDelete(st, reference, validationEnabled, probe) ==
    IF validationEnabled /\ ~validateInstallation(reference, probe).isValid
    THEN [st EXCEPT !.probes = Append(@, Probe(reference, probe))]
    ELSE [st EXCEPT !.targets = Append(@, TeamsBotInstallation(reference)),
                    !.probes = IF validationEnabled
                               THEN Append(@, Probe(reference, probe))
                               ELSE @]

\* Every reference validated, whatever validationEnabled
VisitReference_AlwaysValidating(st, reference, validationEnabled, probe) ==
    IF ~validateInstallation(reference, probe).isValid
    THEN LET keys == <<getKey(reference)>>
             d == delete(st.file, keys)
         IN  [st EXCEPT !.file = d.file,
                        !.calls = Append(@, DeleteCall(keys)),
                        !.probes = Append(@, Probe(reference, probe)),
                        !.outcome = d.outcome]
    ELSE [st EXCEPT !.targets = Append(@, TeamsBotInstallation(reference)),
                    !.probes = Append(@, Probe(reference, probe))]

\* One iteration of the loop of getPagedInstallations; st is the file, the
\* store calls and probes so far, the targets, and how the last await ended.
VisitReference(st, reference, validationEnabled, probe) ==
    IF validationEnabled /\ ~validateInstallation(reference, probe).isValid
    THEN LET keys == <<getKey(reference)>>
             d == delete(st.file, keys)
         IN  [st EXCEPT !.file = d.file,
                        !.calls = Append(@, DeleteCall(keys)),
                        !.probes = Append(@, Probe(reference, probe)),
                        !.outcome = d.outcome]
    ELSE [st EXCEPT !.targets = Append(@, TeamsBotInstallation(reference)),
                    !.probes = IF validationEnabled
                               THEN Append(@, Probe(reference, probe))
                               ELSE @]

RECURSIVE VisitReferences(_, _, _, _, _)
VisitReferences(st, references, i, validationEnabled, probeOf) ==
    IF i > Len(references) \/ st.outcome # "resolved"
    THEN st
    ELSE VisitReferences(
            VisitReference(st, references[i], validationEnabled, probeOf[i]),
            references, i + 1, validationEnabled, probeOf)

\* probeOf[i] is how the probe of the i-th listed reference ends
getPagedInstallations(f, pageSize, continuationToken, validationEnabled, probeOf) ==
    LET references == list(f, pageSize, continuationToken)
        st == VisitReferences(
                [file |-> f, calls |-> <<>>, probes |-> <<>>, targets |-> <<>>,
                 outcome |-> references.outcome],
                references.data, 1, validationEnabled, probeOf)
    IN  [file |-> st.file, calls |-> st.calls, probes |-> st.probes,
         listed |-> references.data,
         outcome |-> IF st.outcome = "resolved" THEN "returned" ELSE st.outcome,
         result |-> IF st.outcome = "resolved"
                    THEN [data |-> st.targets,
                          continuationToken |-> references.continuationToken]
                    ELSE <<>>]

----------------------------------------------------------------------------
(* Specification *)

TypeOK ==
    /\ file.state \in {"absent", "object", "unreadable", "invalid"}
    /\ op \in {"start", "onTurn", "getPagedInstallations", "validateInstallation",
               "write", "read", "delete", "list",
               "sendMessage", "sendAdaptiveCard", "channels", "getTeamDetails",
               "findMember", "findAllMembers", "getKey", "installations",
               "concurrent"}
    /\ outcome \in {"returned", "rejected", "uncaught", "pending"}
    /\ nextCalls \in 0..1

NoActivity ==
    Activity("none", UndefinedAction, Undefined, Undefined, Undefined,
             <<Undefined, Conversation(Undefined, Undefined, Undefined)>>)

\* No store call has been made
NoPrior == [op |-> "none", args |-> <<>>, outcome |-> "returned"]

Init ==
    /\ file \in {NoFile, ObjectFile(<<>>), UnreadableFile, InvalidFile}
    /\ op = "start"
    /\ pre = file
    /\ received = NoActivity
    /\ activity = NoActivity
    /\ classified = Unknown
    /\ calls = <<>>
    /\ nextCalls = 0
    /\ outcome = "returned"
    /\ validation = FALSE
    /\ listed = <<>>
    /\ probes = <<>>
    /\ result = <<>>
    /\ args = <<>>
    /\ prior = NoPrior
    /\ effects = <<>>

\* The adapter runs the middleware on an inbound activity.
Turn(a) ==
    LET t == onTurn(file, a)
    IN  /\ Len(t.file.data) <= MaxStore
        /\ file' = t.file
        /\ op' = "onTurn"
        /\ pre' = file
        /\ received' = a
        /\ activity' = t.activity
        /\ classified' = t.classified
        /\ calls' = t.calls
        /\ nextCalls' = t.nextCalls
        /\ outcome' = t.outcome
        /\ validation' = FALSE
        /\ listed' = <<>>
        /\ probes' = <<>>
        /\ result' = <<>>
        /\ effects' = t.steps
        /\ UNCHANGED <<args, prior>>

OnTurn == \E a \in Activities : Turn(a)

\* pageSize and continuationToken of a call: both absent, or a page size
\* of 1 with the token of a second page
PageRequests ==
    { [pageSize |-> <<>>, continuationToken |-> Undefined],
      [pageSize |-> <<1>>, continuationToken |-> "1"] }

\* How the probes of one call end
PagedProbeOutcomes ==
    {ProbeOk, ProbeError("BotNotInConversationRoster"), ProbeError("ConversationNotFound")}

\* A caller asks for a page of installations.
GetPagedInstallations ==
    \E page \in PageRequests, validationEnabled \in BOOLEAN,
       probeOf \in [1..Len(file.data) -> PagedProbeOutcomes] :
        LET g == getPagedInstallations(file, page.pageSize, page.continuationToken,
                                       validationEnabled, probeOf)
        IN  /\ file' = g.file
            /\ op' = "getPagedInstallations"
            /\ pre' = file
            /\ received' = NoActivity
            /\ activity' = NoActivity
            /\ classified' = Unknown
            /\ calls' = g.calls
            /\ nextCalls' = 0
            /\ outcome' = g.outcome
            /\ validation' = validationEnabled
            /\ listed' = g.listed
            /\ probes' = g.probes
            /\ result' = g.result
            /\ effects' = <<>>
            /\ UNCHANGED <<args, prior>>

\* A caller validates a reference.
ValidateInstallation ==
    \E s \in Sources, probe \in ProbeOutcomes :
        LET reference == [activityId |-> s[1], conversation |-> s[2]]
            v == validateInstallation(reference, probe)
        IN  /\ op' = "validateInstallation"
            /\ pre' = file
            /\ received' = NoActivity
            /\ activity' = NoActivity
            /\ classified' = Unknown
            /\ calls' = <<>>
            /\ nextCalls' = 0
            /\ outcome' = v.outcome
            /\ validation' = FALSE
            /\ listed' = <<>>
            /\ probes' = <<Probe(reference, probe)>>
            /\ result' = v.isValid
            /\ effects' = <<>>
            /\ UNCHANGED <<file, args, prior>>

Next ==
    \/ OnTurn
    \/ GetPagedInstallations
    \/ ValidateInstallation

Spec == Init /\ [][Next]_vars

----------------------------------------------------------------------------
(* Properties of the middleware *)

Turned == op = "onTurn"

\* The reference of the event of the last turn
EventReference == getConversationReference(received)

\* A store that holds nothing: no backing file, or a file holding {}
EmptyStore(f) == f.state = "absent" \/ (f.state = "object" /\ f.data = <<>>)

\* The entries of data whose reference is of conversation id within tenantId
EntriesOf(data, tenantId, id) ==
    {i \in 1..Len(data) : /\ data[i].value.conversation.tenantId = tenantId
                          /\ data[i].value.conversation.id = id}

\* data holds value under key
Holds(data, key, value) == HasKey(data, key) /\ Get(data, key) = value

\* data and other hold the same under every key but key
SameButFor(data, other, key) ==
    \A k \in (Keys(data) \cup Keys(other)) \ {key} :
        /\ HasKey(data, k) /\ HasKey(other, k)
        /\ Get(data, k) = Get(other, k)

ChannelMessageOfTeam ==
    /\ Turned
    /\ received.type = Message
    /\ received.conversation.conversationType = "channel"
    /\ received.teamId # Undefined

\* C1: a channel message with a team id, sent in the channel whose id is the
\* team id, makes the middleware issue exactly one store write, of a
\* reference whose conversation id is the team id under the key of that
\* reference, and once the write has succeeded the store holds exactly one
\* entry for the team, that reference; a channel message with a team id and
\* a channel id other than the team id makes it issue no store call and
\* leaves the store as it was.
C1_GeneralChannelOnly ==
    ChannelMessageOfTeam =>
        /\ received.channelId = received.teamId =>
              /\ Len(calls) = 1
              /\ calls[1].op = "write"
              /\ Len(calls[1].changes) = 1
              /\ calls[1].changes[1].value.conversation.id = received.teamId
              /\ calls[1].changes[1].key = getKey(calls[1].changes[1].value)
              /\ outcome = "returned" =>
                    /\ Cardinality(EntriesOf(file.data, received.conversation.tenantId,
                                             received.teamId)) = 1
                    /\ Holds(file.data, calls[1].changes[1].key,
                             calls[1].changes[1].value)
        /\ (received.channelId # Undefined /\ received.channelId # received.teamId) =>
              /\ calls = <<>>
              /\ file = pre

\* C1 witness: a message in the General channel has been tracked in a store
\* that held another reference, and the thread's own id is not the team id
C1_Witness ==
    /\ ChannelMessageOfTeam
    /\ received.channelId = received.teamId
    /\ received.conversation.id # received.teamId
    /\ outcome = "returned"
    /\ Len(pre.data) = 1
    /\ Len(file.data) = 2

\* The last turn handled an event of a conversation that has a tenant
TurnedFor(tenantId, id) ==
    /\ Turned
    /\ received.conversation.tenantId = tenantId
    /\ received.conversation.id = id

\* The store holds reference under key and nothing else
HoldsOnly(f, key, reference) ==
    f.state = "object" /\ f.data = <<Entry(key, reference)>>

\* C2: for a conversation C of tenant T, a bot-install event on an empty
\* store leaves exactly one entry, keyed _T_C; a personal or group-chat
\* message of C on a store holding only the entry _T_C leaves exactly one
\* entry, keyed _T_C, holding the message's reference; a bot-uninstall event
\* of C on a store holding only the entry _T_C leaves the store empty.
C2_InstallMessageUninstall ==
    \A c \in {x \in Conversations : x.tenantId # Undefined} :
        LET key == "_" \o c.tenantId \o "_" \o c.id
        IN  TurnedFor(c.tenantId, c.id) =>
              /\ (classified = CurrentBotInstalled /\ EmptyStore(pre)) =>
                    HoldsOnly(file, key, EventReference)
              /\ ( /\ received.type = Message
                   /\ received.conversation.conversationType \in {"personal", "groupChat"}
                   /\ Keys(pre.data) = {key} /\ Len(pre.data) = 1 ) =>
                    HoldsOnly(file, key, EventReference)
              /\ ( /\ classified = CurrentBotUninstalled
                   /\ Keys(pre.data) = {key} /\ Len(pre.data) = 1 ) =>
                    (file.state = "object" /\ file.data = <<>>)

\* C2 witness: a group-chat message has replaced the reference that the
\* store held for its conversation by a different one
C2_Witness ==
    /\ TurnedFor("T1", "C1")
    /\ received.type = Message
    /\ received.conversation.conversationType = "groupChat"
    /\ Keys(pre.data) = {"_T1_C1"}
    /\ pre.data[1].value # EventReference
    /\ HoldsOnly(file, "_T1_C1", EventReference)

\* C3: when a turn whose event is classified CurrentBotInstalled or
\* TeamRestored returns, the store maps getKey(reference) to the event's
\* reference; when a turn whose event is classified CurrentBotUninstalled or
\* TeamDeleted returns, the store has no entry under getKey(reference); in
\* both cases the entries under the other keys are as before.
C3_StoreTransition ==
    (Turned /\ outcome = "returned") =>
        LET key == getKey(EventReference)
        IN  /\ classified \in {CurrentBotInstalled, TeamRestored} =>
                  /\ Holds(file.data, key, EventReference)
                  /\ SameButFor(file.data, pre.data, key)
            /\ classified \in {CurrentBotUninstalled, TeamDeleted} =>
                  /\ ~HasKey(file.data, key)
                  /\ SameButFor(file.data, pre.data, key)

\* C3 witness: a team-restored event has written its reference into a store
\* that holds another entry
C3_Witness ==
    /\ Turned /\ outcome = "returned"
    /\ classified = TeamRestored
    /\ Len(file.data) = 2
    /\ Holds(file.data, getKey(EventReference), EventReference)

\* C4 as claimed: every turn invokes next() exactly once, also when the
\* store operation of its branch fails.
C4_NextAlways == Turned => nextCalls = 1

\* The store call of the last turn, if any, succeeded: the file was absent
\* or held a serialized object
StoreCallSucceeded == calls = <<>> \/ pre.state \in {"absent", "object"}

\* C4: a turn invokes next() exactly once, whatever the classification and
\* the branch, when its branch issues no store call or the store call
\* succeeds; when the store call fails, the turn does not return and next()
\* is not invoked.
C4_NextUnlessStoreFails ==
    Turned =>
        /\ StoreCallSucceeded => (nextCalls = 1 /\ outcome = "returned")
        /\ ~StoreCallSucceeded => (nextCalls = 0 /\ outcome # "returned")

\* C4 witness: a turn of an Unknown event has passed control on though the
\* store's file is unreadable
C4_Witness ==
    /\ Turned
    /\ classified = Unknown
    /\ pre.state = "unreadable"
    /\ nextCalls = 1

----------------------------------------------------------------------------
(* Properties of validation and of the installation pages *)

Paged == op = "getPagedInstallations"

\* The probe ended with the error code BotNotInConversationRoster
ReportedNotInRoster(probe) ==
    probe.error /\ probe.code = "BotNotInConversationRoster"

\* The conversation references of the installations of a page
ReferencesOf(page) ==
    {page.data[i].conversationReference : i \in 1..Len(page.data)}

\* The references the store holds
Stored(f) == {f.data[i].value : i \in 1..Len(f.data)}

\* C5: when getPagedInstallations with validation enabled returns, every
\* listed reference has been probed, and a reference whose probe reported
\* BotNotInConversationRoster is not among the installations returned and
\* the store holds no entry for it, neither as a value nor under its key.
C5_StaleNeverReturned ==
    (Paged /\ validation /\ outcome = "returned") =>
        /\ Len(probes) = Len(listed)
        /\ \A i \in 1..Len(probes) :
              /\ probes[i].reference = listed[i]
              /\ ReportedNotInRoster(probes[i].probe) =>
                    /\ probes[i].reference \notin ReferencesOf(result)
                    /\ probes[i].reference \notin Stored(file)
                    /\ ~HasKey(file.data, getKey(probes[i].reference))

\* C5 witness: of two listed references one was reported not in the roster
\* and pruned, the other returned
C5_Witness ==
    /\ Paged /\ validation /\ outcome = "returned"
    /\ Len(listed) = 2
    /\ ReportedNotInRoster(probes[1].probe)
    /\ ~ReportedNotInRoster(probes[2].probe)
    /\ Len(result.data) = 1
    /\ Len(file.data) = 1

\* C6: validateInstallation returns, and returns false exactly when the
\* probe failed with the error code BotNotInConversationRoster; it returns
\* true when the probe succeeded and when it failed with any other error.
C6_FailOpen ==
    op = "validateInstallation" =>
        /\ outcome = "returned"
        /\ result = ~ReportedNotInRoster(probes[1].probe)

\* C6 witness: a probe that failed with another error was answered by true
C6_Witness ==
    /\ op = "validateInstallation"
    /\ probes[1].probe.error
    /\ probes[1].probe.code = "ConversationNotFound"
    /\ result = TRUE

----------------------------------------------------------------------------
(* Properties of the classifier *)

\* c and d are the same character, or the same letter in two cases
SameLetter(c, d) ==
    \/ c = d
    \/ \E i \in 1..Len(UpperCaseLetters) :
          {c, d} = {UpperCaseLetters[i], LowerCaseLetters[i]}

\* The action is the word, whatever the case of its letters
IsWord(action, word) ==
    /\ action # UndefinedAction
    /\ Len(action) = Len(word)
    /\ \A i \in 1..Len(word) : SameLetter(action[i], word[i])

\* C7: an installationUpdate event is classified CurrentBotInstalled when
\* its action is "add" or "add-upgrade" in any case of the letters, and
\* CurrentBotUninstalled for every other action and for an absent one.
C7_InstallationUpdate ==
    (Turned /\ received.type = InstallationUpdate) =>
        classified =
            IF \/ IsWord(received.action, <<"a","d","d">>)
               \/ IsWord(received.action, <<"a","d","d","-","u","p","g","r","a","d","e">>)
            THEN CurrentBotInstalled
            ELSE CurrentBotUninstalled

\* C7 witness: an installation update whose action is add-upgrade in mixed
\* case was classified as an installation
C7_Witness ==
    /\ Turned /\ received.type = InstallationUpdate
    /\ received.action = <<"A","D","D","-","U","p","g","r","a","d","e">>
    /\ classified = CurrentBotInstalled

\* C8: every event gets a classification. A conversationUpdate event is
\* TeamDeleted when its channel data's eventType is exactly "teamDeleted",
\* TeamRestored when it is exactly "teamRestored", and Unknown otherwise,
\* also without channel data; a message event is CurrentBotMessaged; an
\* event of a type the classifier does not name (none of installationUpdate,
\* conversationUpdate, message) is Unknown.
C8_ClassifierTotal ==
    Turned =>
        /\ classified \in ActivityType
        /\ received.type = ConversationUpdate =>
              classified = CASE received.eventType = "teamDeleted" -> TeamDeleted
                             [] received.eventType = "teamRestored" -> TeamRestored
                             [] OTHER -> Unknown
        /\ received.type = Message => classified = CurrentBotMessaged
        /\ received.type \notin {InstallationUpdate, ConversationUpdate, Message} =>
              classified = Unknown

\* C8 witness: a conversation update whose eventType differs from
\* "teamDeleted" only in case was classified Unknown
C8_Witness ==
    /\ Turned /\ received.type = ConversationUpdate
    /\ received.eventType = "TeamDeleted"
    /\ classified = Unknown

----------------------------------------------------------------------------
(* Properties of message tracking *)

ChannelMessageWithoutChannelId ==
    /\ Turned
    /\ received.type = Message
    /\ received.conversation.conversationType = "channel"
    /\ received.channelId = Undefined

\* The event's reference with the team id of the event as conversation id
DerivedReference ==
    [EventReference EXCEPT !.conversation.id = received.teamId]

\* The one store call of the turn wrote the derived reference under its key
WroteDerivedReference ==
    calls = <<WriteCall(<<Entry(getKey(DerivedReference), DerivedReference)>>)>>

\* The turn wrote nothing under the key of the event's own reference
WroteNoOriginalKey ==
    \A i \in 1..Len(calls) : \A j \in 1..Len(calls[i].changes) :
        calls[i].changes[j].key # getKey(EventReference)

\* C9 as claimed: every channel message without channel id makes the
\* middleware write the derived reference, whose conversation id is the
\* event's team id, under the key of the derived reference; the event's
\* reference is not changed and nothing is written under its own key.
C9_EveryMessageWithoutChannelId ==
    ChannelMessageWithoutChannelId =>
        /\ WroteDerivedReference
        /\ activity = received
        /\ WroteNoOriginalKey

\* C9: a channel message without channel id and with a team id makes the
\* middleware write the derived reference under the key of the derived
\* reference; the event's reference is not changed, and nothing is written
\* under its own key unless its conversation id is the team id already.
\* Without a team id the middleware writes nothing.
C9_DerivedReference ==
    ChannelMessageWithoutChannelId =>
        /\ received.teamId # Undefined =>
              /\ WroteDerivedReference
              /\ activity = received
              /\ received.conversation.id # received.teamId => WroteNoOriginalKey
        /\ received.teamId = Undefined =>
              /\ calls = <<>>
              /\ activity = received
              /\ file = pre

\* C9 witness: a message of a channel thread, without channel id, has put
\* the team-level reference into the store
C9_Witness ==
    /\ ChannelMessageWithoutChannelId
    /\ received.teamId = "TEAM1"
    /\ received.conversation.id = "CH2"
    /\ outcome = "returned"
    /\ Holds(file.data, "_T1_TEAM1", DerivedReference)
    /\ ~HasKey(file.data, "_T1_CH2")

\* C10: a turn whose event is classified Unknown, and a turn of a message
\* whose conversation type is none of personal, groupChat and channel,
\* issues no store call and leaves the backing file as it was.
C10_NoMutation ==
    ( /\ Turned
      /\ \/ classified = Unknown
         \/ /\ received.type = Message
            /\ received.conversation.conversationType
                  \notin {"personal", "groupChat", "channel"} ) =>
        /\ calls = <<>>
        /\ file = pre

\* C10 witness: a message of a conversation without type has left a store
\* that holds a reference of that conversation untouched
C10_Witness ==
    /\ Turned
    /\ received.type = Message
    /\ received.conversation.conversationType = Undefined
    /\ HasKey(pre.data, getKey(EventReference))
    /\ file = pre

----------------------------------------------------------------------------
(* Properties of the installation pages without validation *)

\* C20: when getPagedInstallations with validation disabled returns, its
\* page holds one installation for every reference the store holds, in the
\* order of the listing, each of the type of its reference; no probe was
\* made, no store call other than the listing was issued, and the backing
\* file is as it was.
C20_NoValidation ==
    (Paged /\ ~validation /\ outcome = "returned") =>
        /\ Len(listed) = Len(pre.data)
        /\ Len(result.data) = Len(pre.data)
        /\ \A i \in 1..Len(pre.data) :
              /\ listed[i] = pre.data[i].value
              /\ result.data[i].conversationReference = pre.data[i].value
              /\ result.data[i].type = pre.data[i].value.conversation.conversationType
        /\ probes = <<>>
        /\ calls = <<>>
        /\ file = pre

\* C20 witness: a page of two installations was returned without validation
C20_Witness ==
    /\ Paged /\ ~validation /\ outcome = "returned"
    /\ Len(pre.data) = 2
    /\ Len(result.data) = 2
    /\ result.data[1].conversationReference # result.data[2].conversationReference

----------------------------------------------------------------------------
(* The store used directly *)

\* Keys and references of the direct calls
StoreKeys == {"_T1_C1", "_T1_G1", "_T1_TEAM1"}

StoreValues ==
    { [activityId |-> "a1", conversation |-> Conversation("T1", "C1", "personal")],
      [activityId |-> "a2", conversation |-> Conversation("T1", "TEAM1", "channel")] }

\* The changes of a write: none, one entry, or two entries
ChangeSets ==
    { <<>> }
    \cup { <<Entry(k, v)>> : k \in StoreKeys, v \in StoreValues }
    \cup { <<Entry("_T1_C1", v), Entry(k, w)>> :
             k \in {"_T1_G1", "_T1_TEAM1"}, v \in StoreValues, w \in StoreValues }
    \cup { <<Entry("_T1_TEAM1", v), Entry("_T1_G1", v)>> : v \in StoreValues }

\* The keys of a read or delete: none, one, two, one twice
KeyLists ==
    { <<>> }
    \cup { <<k>> : k \in StoreKeys }
    \cup { <<"_T1_C1", "_T1_G1">>, <<"_T1_TEAM1", "_T1_C1">>, <<"_T1_G1", "_T1_TEAM1">>,
           <<"_T1_G1", "_T1_G1">> }

StoreOutcome(o) == IF o = "resolved" THEN "returned" ELSE o

\* What a direct call leaves of the variables of the middleware and the bot
StoreCallFrame ==
    UNCHANGED <<received, activity, classified, calls, nextCalls, validation,
                listed, probes, effects>>

StoreWrite ==
    \E changes \in ChangeSets :
        LET w == write(file, changes)
        IN  /\ file' = w.file
            /\ op' = "write"
            /\ pre' = file
            /\ args' = changes
            /\ outcome' = StoreOutcome(w.outcome)
            /\ result' = <<>>
            /\ prior' = NoPrior
            /\ StoreCallFrame

\* A read keeps the store call made before it.
StoreRead ==
    \E keys \in KeyLists :
        LET r == read(file, keys)
        IN  /\ op' = "read"
            /\ pre' = file
            /\ args' = keys
            /\ outcome' = StoreOutcome(r.outcome)
            /\ result' = r.result
            /\ prior' = [op |-> op, args |-> args, outcome |-> outcome]
            /\ UNCHANGED file
            /\ StoreCallFrame

StoreDelete ==
    \E keys \in KeyLists :
        LET d == delete(file, keys)
        IN  /\ file' = d.file
            /\ op' = "delete"
            /\ pre' = file
            /\ args' = keys
            /\ outcome' = StoreOutcome(d.outcome)
            /\ result' = <<>>
            /\ prior' = NoPrior
            /\ StoreCallFrame

StoreList ==
    \E page \in PageRequests :
        LET l == list(file, page.pageSize, page.continuationToken)
        IN  /\ op' = "list"
            /\ pre' = file
            /\ args' = page
            /\ outcome' = StoreOutcome(l.outcome)
            /\ result' = [data |-> l.data, continuationToken |-> l.continuationToken]
            /\ prior' = NoPrior
            /\ UNCHANGED file
            /\ StoreCallFrame

NextStore ==
    \/ StoreWrite
    \/ StoreRead
    \/ StoreDelete
    \/ StoreList

SpecStore == Init /\ [][NextStore]_vars

----------------------------------------------------------------------------
(* Claims about the store *)

\* The elements of a list of keys
ListedKeys(keys) == {keys[i] : i \in 1..Len(keys)}

\* The last call was op and it returned
StoreReturned(o) == op = o /\ outcome = "returned"

\* The last call was a read that followed a call o that returned
ReadAfter(o) == op = "read" /\ prior.op = o /\ prior.outcome = "returned"

\* No key appears twice in data
NoDuplicateKey(data) == Cardinality(Keys(data)) = Len(data)

\* The entries of data under the keys of kept, in the order of data
Restricted(data, kept) == SelectSeq(data, LAMBDA e : e.key \in kept)

\* C11: a read that names key k and follows a write that returned and whose
\* changes map k to reference r returns a mapping that holds r under k; a
\* read that names k and follows a delete that returned and that named k
\* returns a mapping without k. This holds whatever the store held before.
C11_RoundTrip ==
    \A k \in StoreKeys :
        /\ (ReadAfter("write") /\ k \in ListedKeys(args) /\ HasKey(prior.args, k)) =>
               /\ outcome = "returned"
               /\ Holds(result, k, Get(prior.args, k))
        /\ (ReadAfter("delete") /\ k \in ListedKeys(args) /\ k \in ListedKeys(prior.args)) =>
               /\ outcome = "returned"
               /\ ~HasKey(result, k)

C11_Witness ==
    /\ ReadAfter("write")
    /\ args = <<"_T1_G1">>
    /\ Len(prior.args) = 1
    /\ Len(pre.data) = 3
    /\ pre.data[1].key = "_T1_G1"
    /\ result = <<Entry("_T1_G1", prior.args[1].value)>>
    /\ result[1].value.activityId = "a2"

C11_WitnessDelete ==
    /\ ReadAfter("delete")
    /\ args = <<"_T1_G1">>
    /\ prior.args = <<"_T1_G1">>
    /\ Len(pre.data) = 2
    /\ result = <<>>

\* C12: after a write that returned, the store holds under every key of
\* the changes the value the changes give it, whole; it holds under every
\* other key it held before the value it held before; it holds no other
\* key and no key twice; and when there was no backing file, the file now
\* holds exactly the changes.
C12_Upsert ==
    StoreReturned("write") =>
        /\ file.state = "object"
        /\ \A k \in Keys(args) : Holds(file.data, k, Get(args, k))
        /\ \A k \in Keys(pre.data) \ Keys(args) :
              Holds(file.data, k, Get(pre.data, k))
        /\ Keys(file.data) = Keys(pre.data) \cup Keys(args)
        /\ NoDuplicateKey(file.data)
        /\ (pre.state = "absent" => file.data = args)

C12_Witness ==
    /\ StoreReturned("write")
    /\ Len(pre.data) = 2
    /\ Len(args) = 2
    /\ Len(file.data) = 3
    /\ \E k \in Keys(args) \cap Keys(pre.data) : Get(args, k) # Get(pre.data, k)

C12_WitnessCreated ==
    /\ StoreReturned("write")
    /\ pre.state = "absent"
    /\ Len(file.data) = 2

\* C13: a read of a store without a backing file returns the empty
\* mapping; a read that returns gives exactly the stored entries whose key
\* is among the requested keys, each with its stored value, so an absent
\* requested key is left out and no other key appears; and a read leaves
\* the backing file as it was.
C13_ReadSubset ==
    op = "read" =>
        /\ file = pre
        /\ (pre.state = "absent" => outcome = "returned" /\ result = <<>>)
        /\ (outcome = "returned" =>
              /\ Keys(result) = Keys(pre.data) \cap ListedKeys(args)
              /\ NoDuplicateKey(result)
              /\ \A k \in Keys(result) : Get(result, k) = Get(pre.data, k))

C13_Witness ==
    /\ StoreReturned("read")
    /\ Len(pre.data) = 2
    /\ Len(args) = 2
    /\ Len(result) = 1
    /\ \E k \in ListedKeys(args) : ~HasKey(pre.data, k)

C13_WitnessNoFile ==
    /\ StoreReturned("read")
    /\ pre.state = "absent"
    /\ Len(args) = 2

\* C14: a delete on a store without a backing file returns and leaves it
\* without one; a delete that returned leaves exactly the entries whose key
\* it did not name, each with its value and in their order, whether or not
\* the named keys were present.
C14_DeleteExactly ==
    op = "delete" =>
        /\ (pre.state = "absent" => outcome = "returned" /\ file = pre)
        /\ (outcome = "returned" /\ pre.state # "absent" =>
              /\ file.state = "object"
              /\ file.data = Restricted(pre.data, Keys(pre.data) \ ListedKeys(args)))
        /\ (outcome # "returned" => file = pre)

C14_Witness ==
    /\ StoreReturned("delete")
    /\ Len(args) = 2
    /\ args[1] # args[2]
    /\ Len(pre.data) = 3
    /\ Len(file.data) = 1

C14_WitnessAbsentKey ==
    /\ StoreReturned("delete")
    /\ Len(pre.data) = 2
    /\ \E i \in 1..Len(args) : ~HasKey(pre.data, args[i])
    /\ \E i \in 1..Len(args) : HasKey(pre.data, args[i])
    /\ Len(file.data) = 1

C14_WitnessNoFile ==
    /\ StoreReturned("delete")
    /\ pre.state = "absent"
    /\ args # <<>>
    /\ file.state = "absent"

\* C15: a list on a store without a backing file returns an empty page and
\* an empty token; a list that returns gives, for every page size and
\* every token, all the stored references once each in stored order with
\* an empty token, so that a caller that asks again only while the token is
\* not empty has every reference exactly once after this one call; and a
\* list leaves the backing file as it was.
C15_ListAll ==
    op = "list" =>
        /\ file = pre
        /\ (pre.state = "absent" =>
              /\ outcome = "returned"
              /\ result.data = <<>>
              /\ result.continuationToken = "")
        /\ (outcome = "returned" =>
              /\ result.continuationToken = ""
              /\ Len(result.data) = Len(pre.data)
              /\ \A i \in 1..Len(pre.data) : result.data[i] = pre.data[i].value)

C15_Witness ==
    /\ StoreReturned("list")
    /\ args.pageSize = <<1>>
    /\ args.continuationToken = "1"
    /\ Len(pre.data) = 3
    /\ Len(result.data) = 3
    /\ result.continuationToken = ""

C15_WitnessNoFile ==
    /\ StoreReturned("list")
    /\ pre.state = "absent"
    /\ result.data = <<>>

----------------------------------------------------------------------------
(* Notification targets *)

\* A value that conditions take as true
Truthy(x) == x # Undefined /\ x # ""

\* What a call does to the platform and to the caller, in order: kind
\* is continueConversation, sendActivity, createConversationAsync,
\* getTeamChannels, getTeamDetails, getPagedMembers, predicate, onError
\* or onTurnError; context is the conversation of the turn context;
\* detail is what was passed
Event(kind, context, detail) == [kind |-> kind, context |-> context, detail |-> detail]

\* The adapter: whether adapter.onTurnError has been assigned
Adapters == { [onTurnError |-> b] : b \in BOOLEAN }

\* The adapter runs a callback in a turn on a conversation; the callback is
\* given as what it did, its events and the error it threw if any. An
\* error thrown by the callback goes to adapter.onTurnError when that is
\* assigned, and continueConversation then resolves; otherwise
\* continueConversation rejects with the error. A resumption that fails
\* rejects without running the callback.
continueConversation(adapter, context, isResponse, resumed, callback) ==
    LET resume == Event("continueConversation", context,
                        IF isResponse THEN "isResponse" ELSE "notResponse")
    IN  IF ~resumed
        THEN [events |-> <<resume>>, thrown |-> "resumeError"]
        ELSE IF callback.thrown = Undefined
        THEN [events |-> <<resume>> \o callback.events, thrown |-> Undefined]
        ELSE IF adapter.onTurnError
        THEN [events |-> <<resume>> \o callback.events
                           \o <<Event("onTurnError", context, callback.thrown)>>,
              thrown |-> Undefined]
        ELSE [events |-> <<resume>> \o callback.events, thrown |-> callback.thrown]

\* What the platform does on ctx.sendActivity: posts and reports an id,
\* posts and reports none, or fails
PostOutcomes ==
    { [error |-> Undefined, id |-> "m1"],
      [error |-> Undefined, id |-> Undefined],
      [error |-> "postError", id |-> Undefined] }

\* The caller's error handler: none passed, one that returns, one that throws
Handlers == {"none", "returns", "throws"}

\* The activity of sendMessage is the text, of sendAdaptiveCard a message
\* with the card as its attachment
ActivityOf(method) == IF method = "sendMessage" THEN "text" ELSE "card"

\* An error of the post lost: no handler called and nothing thrown
SendActivity_Swallowing(context, method, onError, post) ==
    [events |-> <<Event("sendActivity", context, ActivityOf(method))>>,
     thrown |-> Undefined,
     id |-> post.id]

\* try { res = await ctx.sendActivity(..); response.id = res?.id }
\* catch (error) { if (onError) await onError(ctx, error) else throw error }
SendActivity(context, method, onError, post) ==
    LET sent == Event("sendActivity", context, ActivityOf(method))
    IN  IF post.error = Undefined
        THEN [events |-> <<sent>>, thrown |-> Undefined, id |-> post.id]
        ELSE IF onError = "none"
        THEN [events |-> <<sent>>, thrown |-> post.error, id |-> Undefined]
        ELSE [events |-> <<sent, Event("onError", context, post.error)>>,
              thrown |-> IF onError = "throws" THEN "handlerError" ELSE Undefined,
              id |-> Undefined]

\* Targets: an installation, a channel of it with its ChannelInfo id, a
\* member of it with its account id
InstallationTarget(reference) ==
    [kind |-> "Installation", parent |-> TeamsBotInstallation(reference), id |-> Undefined]

ChannelTarget(reference, id) ==
    [kind |-> "Channel", parent |-> TeamsBotInstallation(reference), id |-> id]

MemberTarget(reference, id) ==
    [kind |-> "Member", parent |-> TeamsBotInstallation(reference), id |-> id]

\* Channel.newConversation: a copy of the reference of the context with
\* conversation.id = info.id || ""
ChannelNewConversation(reference, infoId) ==
    [JsonClone(reference) EXCEPT
        !.conversation.id = IF Truthy(infoId) THEN infoId ELSE ""]

\* The id the platform gives the conversation it creates with an account
CreatedConversationId(accountId) == "19:" \o accountId

\* Member.newConversation: a copy of the reference of the context with
\* the id of the conversation the platform creates
MemberNewConversation(reference, accountId) ==
    [JsonClone(reference) EXCEPT !.conversation.id = CreatedConversationId(accountId)]

\* What the platform does during a send: failsAt names the step that
\* fails, resume, create, innerResume or none; post is what the post does
\* when it is reached
Platform(failsAt, post) == [failsAt |-> failsAt, post |-> post]

\* The response of a send: [id] when it returns, the error when it rejects
Response(run, id) ==
    [outcome |-> IF run.thrown = Undefined THEN "returned" ELSE "rejected",
     id |-> IF run.thrown = Undefined THEN id ELSE Undefined,
     error |-> run.thrown,
     events |-> run.events]

\* TeamsBotInstallation.sendMessage and sendAdaptiveCard
InstallationSend(target, method, onError, adapter, platform) ==
    LET context == target.parent.conversationReference.conversation
        callback == SendActivity(context, method, onError, platform.post)
        run == continueConversation(adapter, context, method = "sendAdaptiveCard",
                                    platform.failsAt # "resume", callback)
    IN  Response(run, IF platform.failsAt = "resume" THEN Undefined ELSE callback.id)

\* Channel.sendMessage and sendAdaptiveCard, Member.sendMessage and
\* sendAdaptiveCard: the parent's conversation is resumed, the target's
\* conversation is made, and the post is made in a turn on that one
NestedSend(target, method, onError, adapter, platform) ==
    LET reference == target.parent.conversationReference
        outer == reference.conversation
        created == Event("createConversationAsync", outer, target.id)
        conversation == IF target.kind = "Channel"
                        THEN ChannelNewConversation(reference, target.id)
                        ELSE MemberNewConversation(reference, target.id)
        inner == conversation.conversation
        post == SendActivity(inner, method, onError, platform.post)
        innerRun == continueConversation(adapter, inner, FALSE,
                                         platform.failsAt # "innerResume", post)
        callback ==
            IF target.kind = "Member" /\ platform.failsAt = "create"
            THEN [events |-> <<created>>, thrown |-> "createError"]
            ELSE [events |-> (IF target.kind = "Member" THEN <<created>> ELSE <<>>)
                             \o innerRun.events,
                  thrown |-> innerRun.thrown]
        run == continueConversation(adapter, outer, method = "sendAdaptiveCard",
                                    platform.failsAt # "resume", callback)
    IN  Response(run, IF platform.failsAt = "none" THEN post.id ELSE Undefined)

sendMessage(target, onError, adapter, platform) ==
    IF target.kind = "Installation"
    THEN InstallationSend(target, "sendMessage", onError, adapter, platform)
    ELSE NestedSend(target, "sendMessage", onError, adapter, platform)

sendAdaptiveCard(target, onError, adapter, platform) ==
    IF target.kind = "Installation"
    THEN InstallationSend(target, "sendAdaptiveCard", onError, adapter, platform)
    ELSE NestedSend(target, "sendAdaptiveCard", onError, adapter, platform)

\* The turn context of a resumed conversation, as far as
\* getTeamsBotInstallationId reads it: activity.channelData?.team?.id,
\* activity.conversation?.name and activity.conversation?.id
TurnContext(teamId, name, id) == [teamId |-> teamId, name |-> name, id |-> id]

getTeamsBotInstallationId(context) ==
    IF Truthy(context.teamId) THEN context.teamId
    ELSE IF context.name = Undefined /\ Truthy(context.id) THEN context.id
    ELSE Undefined

\* The team queries of a channel installation: the conversation is resumed
\* and, when the turn has a team id, the platform is asked with it. query
\* names the platform call; answer is what the platform gives back.
TeamQuery(installation, adapter, turn, platform, query, answer, none) ==
    LET conversation == installation.conversationReference.conversation
        teamId == getTeamsBotInstallationId(
                      TurnContext(turn.teamId, turn.name, conversation.id))
        asked == Event(query, conversation, teamId)
        callback ==
            IF teamId = Undefined THEN [events |-> <<>>, thrown |-> Undefined]
            ELSE IF platform.failsAt = "query"
            THEN [events |-> <<asked>>, thrown |-> "queryError"]
            ELSE [events |-> <<asked>>, thrown |-> Undefined]
        run == continueConversation(adapter, conversation, FALSE,
                                    platform.failsAt # "resume", callback)
    IN  [outcome |-> IF run.thrown = Undefined THEN "returned" ELSE "rejected",
         result |-> IF platform.failsAt = "none" /\ teamId # Undefined
                    THEN answer ELSE none,
         events |-> run.events]

\* The platform asked for the channels of any installation
channels_Unguarded(installation, adapter, turn, platform) ==
    TeamQuery(installation, adapter, turn, platform, "getTeamChannels",
              [i \in 1..Len(platform.channels) |->
                  ChannelTarget(installation.conversationReference,
                                platform.channels[i])],
              <<>>)

\* TeamsBotInstallation.channels(): the channels as Channel targets
channels(installation, adapter, turn, platform) ==
    IF installation.type # "channel"
    THEN [outcome |-> "returned", result |-> <<>>, events |-> <<>>]
    ELSE TeamQuery(installation, adapter, turn, platform, "getTeamChannels",
                   [i \in 1..Len(platform.channels) |->
                       ChannelTarget(installation.conversationReference,
                                     platform.channels[i])],
                   <<>>)

\* TeamsBotInstallation.getTeamDetails(): <<>> is undefined, <<d>> the
\* details d
getTeamDetails(installation, adapter, turn, platform) ==
    IF installation.type # "channel"
    THEN [outcome |-> "returned", result |-> <<>>, events |-> <<>>]
    ELSE TeamQuery(installation, adapter, turn, platform, "getTeamDetails",
                   <<[id |-> getTeamsBotInstallationId(
                                TurnContext(turn.teamId, turn.name,
                                    installation.conversationReference.conversation.id))]>>,
                   <<>>)

----------------------------------------------------------------------------
(* The targets used *)

\* The references of the installations: one of each conversation
TargetReferences ==
    { [activityId |-> "a1", conversation |-> c] : c \in Conversations }

PersonalReference ==
    [activityId |-> "a1", conversation |-> Conversation("T1", "C1", "personal")]

TeamReference ==
    [activityId |-> "a1", conversation |-> Conversation("T1", "TEAM1", "channel")]

\* The targets of the sends, each with the ways the platform can take it
SendCases ==
    { [target |-> InstallationTarget(r), platform |-> p] :
        r \in {PersonalReference, TeamReference},
        p \in { Platform("resume", CHOOSE o \in PostOutcomes : o.id = "m1") }
              \cup { Platform("none", o) : o \in PostOutcomes } }
    \cup
    { [target |-> ChannelTarget(TeamReference, id), platform |-> p] :
        id \in {"CH2", Undefined},
        p \in { Platform(at, CHOOSE o \in PostOutcomes : o.id = "m1") :
                  at \in {"resume", "innerResume"} }
              \cup { Platform("none", o) : o \in PostOutcomes } }
    \cup
    { [target |-> MemberTarget(r, "u1"), platform |-> p] :
        r \in {PersonalReference, TeamReference},
        p \in { Platform(at, CHOOSE o \in PostOutcomes : o.id = "m1") :
                  at \in {"resume", "create", "innerResume"} }
              \cup { Platform("none", o) : o \in PostOutcomes } }

\* What the turn of a resumed installation carries, and what the platform
\* does with a team query
Turns == { [teamId |-> t, name |-> n] : t \in {Undefined, "TEAM1"}, n \in {Undefined, "General"} }

QueryPlatforms ==
    { [failsAt |-> at, channels |-> <<"TEAM1", "CH2">>] : at \in {"resume", "query", "none"} }

\* What a call on a target leaves of the other variables
TargetCallFrame ==
    UNCHANGED <<file, pre, received, activity, classified, calls, nextCalls,
                validation, listed, probes, prior>>

SendMessage ==
    \E c \in SendCases, onError \in Handlers, adapter \in Adapters :
        LET r == sendMessage(c.target, onError, adapter, c.platform)
        IN  /\ op' = "sendMessage"
            /\ args' = [target |-> c.target, onError |-> onError,
                        adapter |-> adapter, platform |-> c.platform]
            /\ outcome' = r.outcome
            /\ result' = [id |-> r.id, error |-> r.error]
            /\ effects' = r.events
            /\ TargetCallFrame

SendAdaptiveCard ==
    \E c \in SendCases, onError \in Handlers, adapter \in Adapters :
        LET r == sendAdaptiveCard(c.target, onError, adapter, c.platform)
        IN  /\ op' = "sendAdaptiveCard"
            /\ args' = [target |-> c.target, onError |-> onError,
                        adapter |-> adapter, platform |-> c.platform]
            /\ outcome' = r.outcome
            /\ result' = [id |-> r.id, error |-> r.error]
            /\ effects' = r.events
            /\ TargetCallFrame

Channels ==
    \E reference \in TargetReferences, adapter \in Adapters, turn \in Turns,
       platform \in QueryPlatforms :
        LET r == channels(TeamsBotInstallation(reference), adapter, turn, platform)
        IN  /\ op' = "channels"
            /\ args' = [target |-> InstallationTarget(reference), adapter |-> adapter,
                        turn |-> turn, platform |-> platform]
            /\ outcome' = r.outcome
            /\ result' = r.result
            /\ effects' = r.events
            /\ TargetCallFrame

GetTeamDetails ==
    \E reference \in TargetReferences, adapter \in Adapters, turn \in Turns,
       platform \in QueryPlatforms :
        LET r == getTeamDetails(TeamsBotInstallation(reference), adapter, turn, platform)
        IN  /\ op' = "getTeamDetails"
            /\ args' = [target |-> InstallationTarget(reference), adapter |-> adapter,
                        turn |-> turn, platform |-> platform]
            /\ outcome' = r.outcome
            /\ result' = r.result
            /\ effects' = r.events
            /\ TargetCallFrame

NextTarget ==
    \/ SendMessage
    \/ SendAdaptiveCard
    \/ Channels
    \/ GetTeamDetails

SpecTarget == Init /\ [][NextTarget]_vars

----------------------------------------------------------------------------
(* Claims about the targets *)

\* The last call was a send
Sent == op \in {"sendMessage", "sendAdaptiveCard"}

\* The events of the last call of a kind
EventsOf(kind) == SelectSeq(effects, LAMBDA e : e.kind = kind)

\* The last call was a send that reached the post
Posted == Sent /\ Len(EventsOf("sendActivity")) = 1

PostFailed == Posted /\ args.platform.post.error # Undefined

PostSucceeded == Posted /\ args.platform.post.error = Undefined

\* The handler was called once, with the context of the post and its error
HandlerCalledOnce ==
    /\ Len(EventsOf("onError")) = 1
    /\ EventsOf("onError")[1].context = EventsOf("sendActivity")[1].context
    /\ EventsOf("onError")[1].detail = args.platform.post.error

\* The call returned a response without an id
ReturnedWithoutId == outcome = "returned" /\ result.id = Undefined

\* The call rejected with error
Propagated(error) == outcome = "rejected" /\ result.error = error

\* adapter.onTurnError was called once, with the context of the post and error
TurnErrorCalledOnce(error) ==
    /\ Len(EventsOf("onTurnError")) = 1
    /\ EventsOf("onTurnError")[1].context = EventsOf("sendActivity")[1].context
    /\ EventsOf("onTurnError")[1].detail = error

\* What both statements of C18 say of a supplied handler and of a post
\* that succeeds
C18_HandlerAndSuccess ==
    /\ (PostFailed /\ args.onError # "none") => HandlerCalledOnce
    /\ (PostFailed /\ args.onError = "returns") => ReturnedWithoutId
    /\ PostSucceeded =>
          /\ EventsOf("onError") = <<>>
          /\ outcome = "returned"
          /\ result.id = args.platform.post.id

\* C18 as stated: for sendMessage and sendAdaptiveCard on an installation,
\* a channel or a member, when the post fails and a handler was supplied,
\* the handler is called exactly once with the context of the post and the
\* error, and the call returns a response without an id; when no handler
\* was supplied the error propagates to the caller; when the post succeeds
\* the handler is not called and the id returned is the platform's.
C18_ErrorPropagates ==
    /\ C18_HandlerAndSuccess
    /\ (PostFailed /\ args.onError = "none") => Propagated(args.platform.post.error)

\* C18 amended: as stated for a supplied handler and for a post that
\* succeeds; when the post fails and no handler was supplied, no handler is
\* called and the error is thrown to the adapter: if adapter.onTurnError
\* is assigned it is called once with the context of the post and the
\* error, and the call returns a response without an id; only if it is not
\* assigned does the error propagate to the caller. An error thrown by a
\* supplied handler takes the same way.
C18_ErrorToAdapter ==
    /\ C18_HandlerAndSuccess
    /\ (PostFailed /\ args.onError = "none") =>
          /\ EventsOf("onError") = <<>>
          /\ IF args.adapter.onTurnError
             THEN TurnErrorCalledOnce(args.platform.post.error) /\ ReturnedWithoutId
             ELSE EventsOf("onTurnError") = <<>>
                  /\ Propagated(args.platform.post.error)
    /\ (PostFailed /\ args.onError = "throws") =>
          IF args.adapter.onTurnError
          THEN TurnErrorCalledOnce("handlerError") /\ ReturnedWithoutId
          ELSE Propagated("handlerError")

C18_Witness ==
    /\ op = "sendMessage"
    /\ PostFailed
    /\ args.target.kind = "Channel"
    /\ args.onError = "none"
    /\ args.adapter.onTurnError
    /\ ReturnedWithoutId
    /\ Len(EventsOf("continueConversation")) = 2

C18_WitnessHandler ==
    /\ op = "sendAdaptiveCard"
    /\ PostFailed
    /\ args.target.kind = "Member"
    /\ args.onError = "returns"
    /\ HandlerCalledOnce
    /\ ReturnedWithoutId

C18_WitnessPropagated ==
    /\ op = "sendMessage"
    /\ PostFailed
    /\ args.target.kind = "Installation"
    /\ args.onError = "none"
    /\ ~args.adapter.onTurnError
    /\ Propagated("postError")

C18_WitnessSuccess ==
    /\ Sent
    /\ PostSucceeded
    /\ args.onError = "returns"
    /\ result.id = "m1"

\* C19: channels() on an installation whose type is not channel returns
\* an empty sequence, and getTeamDetails() on it returns undefined, with
\* no conversation resumed and no platform query made.
C19_NotChannel ==
    (op \in {"channels", "getTeamDetails"} /\ args.target.parent.type # "channel") =>
        /\ outcome = "returned"
        /\ result = <<>>
        /\ effects = <<>>

C19_Witness ==
    /\ op = "channels"
    /\ args.target.parent.type = "personal"
    /\ args.turn.teamId = "TEAM1"
    /\ args.platform.failsAt = "none"
    /\ result = <<>>
    /\ effects = <<>>

C19_WitnessTeamDetails ==
    /\ op = "getTeamDetails"
    /\ args.target.parent.type = Undefined
    /\ args.platform.failsAt = "none"
    /\ result = <<>>
    /\ effects = <<>>

\* A channel installation does resume and ask
C19_WitnessChannel ==
    /\ op = "channels"
    /\ args.target.parent.type = "channel"
    /\ Len(result) = 2
    /\ Len(effects) = 2

----------------------------------------------------------------------------
(* Searching the members *)

\* enum SearchScope; a scope argument is <<>> when absent, <<n>> otherwise
Person == 1
Group == 2
Channel == 4
All == 7

\* (scope & flag) !== 0 for a flag of one bit
HasFlag(scope, flag) == (scope \div flag) % 2 = 1

\* Every installation with a type matches, whatever the scope
matchSearchScope_AnyScope(target, scope) ==
    target.type \in {"channel", "groupChat", "personal"}

matchSearchScope(target, scope) ==
    LET s == IF scope = <<>> THEN All ELSE scope[1]
    IN  \/ (target.type = "channel" /\ HasFlag(s, Channel))
        \/ (target.type = "groupChat" /\ HasFlag(s, Group))
        \/ (target.type = "personal" /\ HasFlag(s, Person))

\* The members the platform reports for a conversation, by id, in pages
Roster(id) ==
    CASE id = "C1" -> << <<"u1">>, <<"u2">> >>
      [] id = "G1" -> << <<"u2", "u3">> >>
      [] id = "TEAM1" -> << <<"u1", "u3">>, <<"u4">> >>
      [] OTHER -> << <<>> >>

\* The continuation token the platform gives for page i, none for the first
PageTokens == <<Undefined, "2", "3">>

PageOf(continuationToken) ==
    IF ~Truthy(continuationToken) THEN 1
    ELSE CHOOSE i \in 1..Len(PageTokens) : PageTokens[i] = continuationToken

\* TeamsBotInstallation.getPagedMembers: the page of the token, or the
\* initial empty page with token "" when the query threw and the adapter
\* took the error
getPagedMembers(installation, pageSize, continuationToken, adapter, platform) ==
    LET conversation == installation.conversationReference.conversation
        pages == Roster(conversation.id)
        i == PageOf(continuationToken)
        asked == Event("getPagedMembers", conversation, continuationToken)
        failed == platform.failsOn = conversation.id
        callback == [events |-> <<asked>>,
                     thrown |-> IF failed THEN "membersError" ELSE Undefined]
        run == continueConversation(adapter, conversation, TRUE, TRUE, callback)
    IN  [outcome |-> IF run.thrown = Undefined THEN "returned" ELSE "rejected",
         data |-> IF failed THEN <<>>
                  ELSE [j \in 1..Len(pages[i]) |->
                           MemberTarget(installation.conversationReference, pages[i][j])],
         continuationToken |-> IF failed THEN ""
                               ELSE IF i < Len(pages) THEN PageTokens[i + 1]
                               ELSE Undefined,
         events |-> run.events]

\* do { page = await target.getPagedMembers(undefined, token); ... }
\* while (token)
RECURSIVE DrainMembers(_, _, _, _, _, _)
DrainMembers(installation, continuationToken, members, events, adapter, platform) ==
    LET page == getPagedMembers(installation, <<>>, continuationToken, adapter, platform)
    IN  IF page.outcome # "returned"
        THEN [outcome |-> page.outcome, members |-> members,
              events |-> events \o page.events]
        ELSE IF Truthy(page.continuationToken)
        THEN DrainMembers(installation, page.continuationToken,
                          members \o page.data, events \o page.events,
                          adapter, platform)
        ELSE [outcome |-> "returned", members |-> members \o page.data,
              events |-> events \o page.events]

\* The loop never left
DrainContinues_Always(continuationToken) == TRUE

\* while (continuationToken)
DrainContinues(continuationToken) == Truthy(continuationToken)

\* NotificationBot.installations() before its first page: no token, no
\* targets
InstallationsStart(f) ==
    [file |-> f, calls |-> <<>>, probes |-> <<>>, listed |-> <<>>,
     outcome |-> "pending", result |-> <<>>, continuationToken |-> Undefined,
     pages |-> 0]

\* targets.push(...result.data) and the token taken over, g being what the
\* awaited getPagedInstallations gave; the loop goes on while a token is
\* returned
AppendPage(st, g) ==
    IF g.outcome # "returned"
    THEN [st EXCEPT !.file = g.file, !.outcome = g.outcome,
                    !.calls = @ \o g.calls, !.probes = @ \o g.probes,
                    !.listed = @ \o g.listed, !.result = <<>>,
                    !.pages = @ + 1]
    ELSE [st EXCEPT !.file = g.file,
                    !.outcome = IF DrainContinues(g.result.continuationToken)
                                THEN "pending" ELSE "returned",
                    !.calls = @ \o g.calls, !.probes = @ \o g.probes,
                    !.listed = @ \o g.listed, !.result = @ \o g.result.data,
                    !.continuationToken = g.result.continuationToken,
                    !.pages = @ + 1]

\* One pass of its loop: a page of getPagedInstallations with validation
\* enabled is appended
InstallationsPage(st, probeOf) ==
    AppendPage(st, getPagedInstallations(st.file, <<>>, st.continuationToken,
                                         TRUE, probeOf))

\* The loop run to its end
RECURSIVE InstallationsLoop(_, _)
InstallationsLoop(st, probeOf) ==
    IF st.outcome # "pending" THEN st
    ELSE InstallationsLoop(InstallationsPage(st, probeOf), probeOf)

\* NotificationBot.installations(): the installations of every page
installations(f, probeOf) == InstallationsLoop(InstallationsStart(f), probeOf)

\* predicate(member), the predicate given as the account ids it accepts
Evaluated(member) ==
    Event("predicate", member.parent.conversationReference.conversation, member.id)

\* Every member evaluated and the last match returned
RECURSIVE EvaluateUntilMatch_LastMatch(_, _, _, _)
EvaluateUntilMatch_LastMatch(members, i, predicate, st) ==
    IF i > Len(members) THEN st
    ELSE EvaluateUntilMatch_LastMatch(
            members, i + 1, predicate,
            [st EXCEPT !.events = Append(@, Evaluated(members[i])),
                       !.found = IF members[i].id \in predicate
                                 THEN <<members[i]>> ELSE @])

\* for (const member of members) if (await predicate(member)) return member
RECURSIVE EvaluateUntilMatch(_, _, _, _)
EvaluateUntilMatch(members, i, predicate, st) ==
    IF i > Len(members) THEN st
    ELSE IF members[i].id \in predicate
    THEN [st EXCEPT !.events = Append(@, Evaluated(members[i])),
                    !.found = <<members[i]>>]
    ELSE EvaluateUntilMatch(members, i + 1, predicate,
                            [st EXCEPT !.events = Append(@, Evaluated(members[i]))])

\* for (const member of targetMembers) if (await predicate(member))
\* members.push(member)
RECURSIVE EvaluateAll(_, _, _, _)
EvaluateAll(members, i, predicate, st) ==
    IF i > Len(members) THEN st
    ELSE EvaluateAll(members, i + 1, predicate,
                     [st EXCEPT !.events = Append(@, Evaluated(members[i])),
                                !.found = IF members[i].id \in predicate
                                          THEN Append(@, members[i]) ELSE @])

\* The loop over the installations of findMember (first) and of
\* findAllMembers
RECURSIVE SearchMembers(_, _, _, _, _, _, _, _)
SearchMembers(targets, i, first, predicate, scope, adapter, platform, st) ==
    IF i > Len(targets) \/ st.outcome # "returned" \/ (first /\ st.found # <<>>)
    THEN st
    ELSE IF ~matchSearchScope(targets[i], scope)
    THEN SearchMembers(targets, i + 1, first, predicate, scope, adapter, platform, st)
    ELSE LET d == DrainMembers(targets[i], Undefined, <<>>, <<>>, adapter, platform)
             drained == [st EXCEPT !.events = @ \o d.events, !.outcome = d.outcome]
         IN  SearchMembers(
                targets, i + 1, first, predicate, scope, adapter, platform,
                IF d.outcome # "returned" THEN drained
                ELSE IF first THEN EvaluateUntilMatch(d.members, 1, predicate, drained)
                ELSE EvaluateAll(d.members, 1, predicate, drained))

\* The result of a search: the installations call, then the loop
Search(f, first, predicate, scope, adapter, platform, probeOf) ==
    LET g == installations(f, probeOf)
        st == IF g.outcome # "returned"
              THEN [outcome |-> g.outcome, found |-> <<>>, events |-> <<>>]
              ELSE SearchMembers(g.result, 1, first, predicate, scope, adapter, platform,
                                 [outcome |-> "returned", found |-> <<>>, events |-> <<>>])
    IN  [file |-> g.file, calls |-> g.calls, probes |-> g.probes, listed |-> g.listed,
         outcome |-> st.outcome, found |-> st.found, events |-> st.events]

\* findMember(predicate, scope): <<>> is undefined, <<m>> the member m
findMember(f, predicate, scope, adapter, platform, probeOf) ==
    Search(f, TRUE, predicate, scope, adapter, platform, probeOf)

\* findAllMembers(predicate, scope): the members found
findAllMembers(f, predicate, scope, adapter, platform, probeOf) ==
    Search(f, FALSE, predicate, scope, adapter, platform, probeOf)

----------------------------------------------------------------------------
(* The searches made *)

\* The bot is installed into a personal chat, a group chat, a team, and a
\* conversation without a type
InstallEvents ==
    { Activity(InstallationUpdate, <<"a","d","d">>, Undefined, Undefined, Undefined, <<"a1", c>>) :
        c \in { Conversation("T1", "C1", "personal"),
                Conversation("T1", "G1", "groupChat"),
                Conversation("T1", "TEAM1", "channel"),
                Conversation(Undefined, "C1", Undefined) } }

Installed == \E a \in InstallEvents : Turn(a)

\* The account ids a predicate accepts
Predicates == { {"u1"}, {"u3"}, {"u2", "u3", "u4"} }

Scopes == { <<>>, <<Person>>, <<Group>>, <<Channel>>, <<5>> }

\* The member queries all answered, or those of TEAM1 failing, with an
\* adapter that takes the error or one that does not
MemberPlatforms ==
    { [adapter |-> [onTurnError |-> TRUE], platform |-> [failsOn |-> Undefined]],
      [adapter |-> [onTurnError |-> TRUE], platform |-> [failsOn |-> "TEAM1"]],
      [adapter |-> [onTurnError |-> FALSE], platform |-> [failsOn |-> "TEAM1"]] }

\* The probes of the installations call: the bot in every roster, or out
\* of the roster of the first listed conversation
SearchProbes(n) ==
    { [i \in 1..n |-> ProbeOk],
      [i \in 1..n |-> IF i = 1 THEN ProbeError("BotNotInConversationRoster") ELSE ProbeOk] }

Searched(name, r, predicate, scope, p) ==
    /\ file' = r.file
    /\ op' = name
    /\ pre' = file
    /\ received' = NoActivity
    /\ activity' = NoActivity
    /\ classified' = Unknown
    /\ calls' = r.calls
    /\ nextCalls' = 0
    /\ outcome' = r.outcome
    /\ validation' = TRUE
    /\ listed' = r.listed
    /\ probes' = r.probes
    /\ result' = r.found
    /\ args' = [predicate |-> predicate, scope |-> scope, adapter |-> p.adapter,
                platform |-> p.platform]
    /\ effects' = r.events
    /\ UNCHANGED prior

FindMember ==
    \E predicate \in Predicates, scope \in Scopes, p \in MemberPlatforms,
       probeOf \in SearchProbes(Len(file.data)) :
        Searched("findMember",
                 findMember(file, predicate, scope, p.adapter, p.platform, probeOf),
                 predicate, scope, p)

FindAllMembers ==
    \E predicate \in Predicates, scope \in Scopes, p \in MemberPlatforms,
       probeOf \in SearchProbes(Len(file.data)) :
        Searched("findAllMembers",
                 findAllMembers(file, predicate, scope, p.adapter, p.platform, probeOf),
                 predicate, scope, p)

NextFind ==
    \/ Installed
    \/ FindMember
    \/ FindAllMembers

SpecFind == Init /\ [][NextFind]_vars

----------------------------------------------------------------------------
(* Claims about the searches *)

\* The last call was a search of members
Searching == op \in {"findMember", "findAllMembers"}

\* The installation types a scope selects: personal for Person, groupChat
\* for Group, channel for Channel, all three when the scope is absent
SelectedTypes(scope) ==
    CASE scope = <<>> -> {"personal", "groupChat", "channel"}
      [] scope = <<Person>> -> {"personal"}
      [] scope = <<Group>> -> {"groupChat"}
      [] scope = <<Channel>> -> {"channel"}
      [] scope = <<5>> -> {"personal", "channel"}

\* The conversations whose members the last call asked the platform for
Queried == {effects[i].context : i \in {j \in 1..Len(effects) : effects[j].kind = "getPagedMembers"}}

\* The conversations the store holds a reference of
StoredConversations(f) == {f.data[i].value.conversation : i \in 1..Len(f.data)}

C16_WitnessAbsentScope ==
    /\ op = "findAllMembers"
    /\ outcome = "returned"
    /\ args.scope = <<>>
    /\ Cardinality(Queried) = 1
    /\ \E c \in StoredConversations(file) : c.conversationType = Undefined

\* The members the platform reports for a reference, over all pages
RECURSIVE RosterMembers(_, _, _)
RosterMembers(reference, pages, i) ==
    IF i > Len(pages) THEN <<>>
    ELSE [j \in 1..Len(pages[i]) |-> MemberTarget(reference, pages[i][j])]
         \o RosterMembers(reference, pages, i + 1)

\* The members in traversal order: the installations of data in their
\* order whose type the scope selects, the members of each in page order
RECURSIVE Traversal(_, _, _)
Traversal(data, i, scope) ==
    IF i > Len(data) THEN <<>>
    ELSE (IF data[i].value.conversation.conversationType \in SelectedTypes(scope)
          THEN RosterMembers(data[i].value, Roster(data[i].value.conversation.id), 1)
          ELSE <<>>)
         \o Traversal(data, i + 1, scope)

\* The members the predicate was evaluated on are those of members, in order
EvaluatedAre(members) ==
    /\ Len(EventsOf("predicate")) = Len(members)
    /\ \A i \in 1..Len(members) : EventsOf("predicate")[i] = Evaluated(members[i])

\* The positions of members the predicate accepts
Matches(members, predicate) == {i \in 1..Len(members) : members[i].id \in predicate}

\* The search returned and every member query was answered
SearchAnswered(name) ==
    op = name /\ outcome = "returned" /\ args.platform.failsOn = Undefined

\* C17: when every member query is answered, a findMember that returns
\* gives the first member in traversal order (the installations left in the
\* store in store order, the members of each in page order) that the
\* predicate accepts, having evaluated the predicate on the members up to
\* that one and on none after it, and gives undefined, having evaluated
\* all, when the predicate accepts none; a findAllMembers that returns has
\* evaluated the predicate on every member of the traversal, in order, and
\* gives exactly the accepted ones in that order.
C17_FirstAndAll ==
    LET members == Traversal(file.data, 1, args.scope)
        matches == Matches(members, args.predicate)
        first == CHOOSE i \in matches : \A j \in matches : i <= j
    IN  /\ SearchAnswered("findMember") =>
              IF matches = {}
              THEN result = <<>> /\ EvaluatedAre(members)
              ELSE result = <<members[first]>>
                   /\ EvaluatedAre(SubSeq(members, 1, first))
        /\ SearchAnswered("findAllMembers") =>
              /\ EvaluatedAre(members)
              /\ result = SelectSeq(members, LAMBDA m : m.id \in args.predicate)

C17_Witness ==
    /\ SearchAnswered("findMember")
    /\ args.predicate = {"u3"}
    /\ Len(file.data) = 2
    /\ Len(Traversal(file.data, 1, args.scope)) = 5
    /\ Len(EventsOf("predicate")) = 4
    /\ result # <<>>
    /\ result[1].id = "u3"

C17_WitnessAll ==
    /\ SearchAnswered("findAllMembers")
    /\ args.predicate = {"u2", "u3", "u4"}
    /\ Len(EventsOf("predicate")) = 5
    /\ Len(result) = 3

C17_WitnessNone ==
    /\ SearchAnswered("findMember")
    /\ args.predicate = {"u3"}
    /\ Len(EventsOf("predicate")) = 2
    /\ result = <<>>

----------------------------------------------------------------------------
(* Keys *)

\* The references whose key is taken: tenant id and conversation id each
\* absent, empty or given, with other fields that vary
KeyReferences ==
    { [activityId |-> a, serviceUrl |-> u, user |-> u,
       conversation |-> Conversation(t, i, ct)] :
        a \in {"a1", "a2"}, u \in {Undefined, "https://smba/"},
        t \in {Undefined, "", "T1"}, i \in {Undefined, "", "C1"},
        ct \in {"personal", "channel"} }

\* A caller takes the key of a reference; args holds the references of the
\* last two calls and result their keys.
GetKey ==
    \E reference \in KeyReferences :
        /\ op' = "getKey"
        /\ args' = <<IF op = "getKey" THEN args[2] ELSE reference, reference>>
        /\ result' = <<IF op = "getKey" THEN result[2] ELSE getKey(reference),
                       getKey(reference)>>
        /\ outcome' = "returned"
        /\ UNCHANGED <<file, pre, received, activity, classified, calls, nextCalls,
                       validation, listed, probes, prior, effects>>

NextKey == GetKey

SpecKey == Init /\ [][NextKey]_vars

\* The last two calls took the keys of references of the same tenant id and
\* conversation id
SameConversation ==
    /\ op = "getKey"
    /\ args[1].conversation.tenantId = args[2].conversation.tenantId
    /\ args[1].conversation.id = args[2].conversation.id

\* C21: two calls of getKey on references with the same tenant id and the
\* same conversation id give the same key, whatever the other fields of
\* the references, and a later call on the same reference gives the key
\* again.
C21_KeyOfTenantAndId ==
    SameConversation => result[1] = result[2]

C21_Witness ==
    /\ SameConversation
    /\ args[1].conversation.tenantId = "T1"
    /\ args[1].conversation.id = "C1"
    /\ args[1].conversation.conversationType # args[2].conversation.conversationType
    /\ args[1].activityId # args[2].activityId
    /\ args[1].serviceUrl # args[2].serviceUrl
    /\ result[1] = result[2]

\* An absent value rendered as the empty string
EmptyIfAbsent(x) == IF x = Undefined THEN "" ELSE x

\* An absent value rendered as the text undefined
UndefinedIfAbsent(x) == IF x = Undefined THEN "undefined" ELSE x

\* C22 as stated: the key of a reference is its tenant id followed by its
\* conversation id, an absent one rendered as the empty string.
C22_Concatenation ==
    op = "getKey" =>
        result[2] = EmptyIfAbsent(args[2].conversation.tenantId)
                        \o EmptyIfAbsent(args[2].conversation.id)

\* C22 amended: the key of a reference is an underscore, its tenant id, an
\* underscore and its conversation id, an absent one rendered as the text
\* undefined; so an absent id and an empty id give different keys.
C22_UnderscoresAndUndefined ==
    op = "getKey" =>
        /\ result[2] = "_" \o UndefinedIfAbsent(args[2].conversation.tenantId)
                           \o "_" \o UndefinedIfAbsent(args[2].conversation.id)
        /\ (args[2].conversation.tenantId = Undefined /\ args[2].conversation.id = "C1")
              => result[2] = "_undefined_C1"
        /\ (args[2].conversation.tenantId = "T1" /\ args[2].conversation.id = "C1")
              => result[2] = "_T1_C1"

C22_Witness ==
    /\ op = "getKey"
    /\ args[2].conversation.tenantId = Undefined
    /\ args[2].conversation.id = Undefined
    /\ result[2] = "_undefined_undefined"

----------------------------------------------------------------------------
(* Failures of the backing file *)

\* The last call was a direct call of the store
StoreCalled == op \in {"write", "read", "delete", "list"}

\* C23 as stated: a write, read, delete or list on a backing file that
\* exists but is unreadable or holds text that is not JSON ends in a
\* rejection the caller observes, and leaves the file as it was.
C23_AllReject ==
    (StoreCalled /\ pre.state \in {"unreadable", "invalid"}) =>
        /\ outcome = "rejected"
        /\ file = pre

\* What does hold of them: none of the four returns and the file is left as
\* it was; the call rejects when the file cannot be read, and never settles
\* when its text is not JSON.
C23_NoReturn ==
    (StoreCalled /\ pre.state \in {"unreadable", "invalid"}) =>
        /\ file = pre
        /\ (pre.state = "unreadable" => outcome = "rejected")
        /\ (pre.state = "invalid" => outcome = "uncaught")

C23_Witness ==
    /\ op = "write"
    /\ args # <<>>
    /\ pre.state = "invalid"
    /\ outcome = "uncaught"
    /\ file = pre

----------------------------------------------------------------------------
(* The classifier by event type *)

\* The classification of an installation update with action add and with
\* action remove, common to both statements of C25
C25_AddAndRemove ==
    /\ (Turned /\ received.type = InstallationUpdate
               /\ received.action = <<"a","d","d">>) =>
           classified = CurrentBotInstalled
    /\ (Turned /\ received.type = InstallationUpdate
               /\ received.action = <<"r","e","m","o","v","e">>) =>
           classified = CurrentBotUninstalled

\* C25 as stated: every event whose type is not installationUpdate is
\* classified Unknown; an installation update with action add is
\* CurrentBotInstalled and one with action remove is CurrentBotUninstalled.
C25_OthersUnknown ==
    /\ C25_AddAndRemove
    /\ (Turned /\ received.type # InstallationUpdate) => classified = Unknown

\* C25 amended: an installation update with action add is
\* CurrentBotInstalled and one with action remove is CurrentBotUninstalled;
\* of the events of another type, a message is CurrentBotMessaged, a
\* conversation update with eventType teamDeleted is TeamDeleted and one
\* with eventType teamRestored is TeamRestored, and exactly the remaining
\* ones are Unknown.
C25_OthersByType ==
    /\ C25_AddAndRemove
    /\ (Turned /\ received.type # InstallationUpdate) =>
          /\ classified \in {CurrentBotMessaged, TeamDeleted, TeamRestored, Unknown}
          /\ classified = CurrentBotMessaged <=> received.type = Message
          /\ classified = TeamDeleted <=>
                (received.type = ConversationUpdate /\ received.eventType = "teamDeleted")
          /\ classified = TeamRestored <=>
                (received.type = ConversationUpdate /\ received.eventType = "teamRestored")

C25_Witness ==
    /\ Turned
    /\ received.type = Message
    /\ received.conversation.conversationType = "personal"
    /\ classified = CurrentBotMessaged
    /\ calls # <<>>

----------------------------------------------------------------------------
(* The drain of the installations, page by page *)

\* installations() has been called and its loop has not ended
Calling == op = "installations" /\ outcome = "pending"

\* installations() has ended: it returned, it rejected, or the store call of
\* its page never settled
Drained == op = "installations" /\ outcome # "pending"

\* How the probes of a page end
DrainProbes == {ProbeOk, ProbeError("BotNotInConversationRoster")}

\* The state of the loop as the variables hold it
DrainState ==
    [file |-> file, calls |-> calls, probes |-> probes, listed |-> listed,
     outcome |-> outcome, result |-> result,
     continuationToken |-> args.continuationToken, pages |-> args.pages]

Drain(st) ==
    /\ file' = st.file
    /\ op' = "installations"
    /\ received' = NoActivity
    /\ activity' = NoActivity
    /\ classified' = Unknown
    /\ calls' = st.calls
    /\ nextCalls' = 0
    /\ outcome' = st.outcome
    /\ validation' = TRUE
    /\ listed' = st.listed
    /\ probes' = st.probes
    /\ result' = st.result
    /\ args' = [continuationToken |-> st.continuationToken, pages |-> st.pages]
    /\ effects' = <<>>
    /\ UNCHANGED prior

\* The bot is installed somewhere while no drain is under way.
DrainInstalled == ~Calling /\ \E a \in InstallEvents : Turn(a)

\* A search helper calls installations().
StartInstallations ==
    /\ ~Calling
    /\ pre' = file
    /\ Drain(InstallationsStart(file))

\* The loop of installations() makes one pass.
DrainPage ==
    /\ Calling
    /\ args.pages < MaxPages
    /\ \E probeOf \in [1..Len(file.data) -> DrainProbes] :
          Drain(InstallationsPage(DrainState, probeOf))
    /\ UNCHANGED pre

NextDrain ==
    \/ DrainInstalled
    \/ StartInstallations
    \/ DrainPage

\* A pass that can be made is made: the loop awaits its page and goes on.
SpecDrain == Init /\ [][NextDrain]_vars /\ WF_vars(DrainPage)

\* The installations of the listed references whose probe did not report
\* the bot out of the roster, in the order of the probes
Survivors(probed) ==
    LET kept == SelectSeq(probed, LAMBDA p : ~ReportedNotInRoster(p.probe))
    IN  [i \in 1..Len(kept) |-> TeamsBotInstallation(kept[i].reference)]

\* What holds of the loop at every moment
DrainOnePage ==
    op = "installations" =>
        /\ args.pages <= 1
        /\ (outcome = "pending" => args.pages = 0 /\ result = <<>>)
        /\ (outcome = "returned" =>
              /\ args.pages = 1
              /\ args.continuationToken = ""
              /\ Len(listed) = Len(pre.data)
              /\ \A i \in 1..Len(listed) : listed[i] = pre.data[i].value
              /\ Len(probes) = Len(listed)
              /\ \A i \in 1..Len(listed) : probes[i].reference = listed[i]
              /\ result = Survivors(probes))

----------------------------------------------------------------------------
(* The order of a turn *)

\* The positions of the steps of the last turn that are store calls, and
\* those that are calls of next()
StoreSteps == {i \in 1..Len(effects) : effects[i].step \in {"write", "delete"}}

NextSteps == {i \in 1..Len(effects) : effects[i].step = "next"}

\* The backing file f shows what the store call c does
Shows(f, c) ==
    /\ \A i \in 1..Len(c.changes) : Holds(f.data, c.changes[i].key, c.changes[i].value)
    /\ \A i \in 1..Len(c.keys) : ~HasKey(f.data, c.keys[i])

\* C27: a turn of the middleware makes at most one store call, a write or
\* a delete, and every step that is one is a call it issued; next() is
\* called only after that call has ended, and the backing file next() finds
\* is the file that call left, which shows the write or the delete of the
\* event and is the file the turn ends with.
C27_StoreBeforeNext ==
    Turned =>
        /\ Cardinality(StoreSteps) <= 1
        /\ Cardinality(StoreSteps) = Len(calls)
        /\ \A s \in StoreSteps : effects[s].step = calls[1].op
        /\ Cardinality(NextSteps) = nextCalls
        /\ \A n \in NextSteps :
              /\ n = Len(effects)
              /\ effects[n].file = file
              /\ \A s \in StoreSteps :
                    /\ s < n
                    /\ effects[s].file = effects[n].file
                    /\ Shows(effects[n].file, calls[1])

C27_Witness ==
    /\ Turned
    /\ Len(effects) = 2
    /\ effects[1].step = "delete"
    /\ effects[2].step = "next"
    /\ Len(pre.data) = 2
    /\ Len(effects[2].file.data) = 1

----------------------------------------------------------------------------
(* Keys of the stored references *)

\* The reference of entry e was probed and reported out of the roster
Stale(e) ==
    \E j \in 1..Len(probes) :
        probes[j].reference = e.value /\ ReportedNotInRoster(probes[j].probe)

\* C28: in every state reached from a store without entries by turns of
\* the middleware and calls of getPagedInstallations, every entry of the
\* store is under the key getKey gives its reference, the team-level
\* references written for General-channel messages included, and no key
\* is held twice; so a getPagedInstallations with validation enabled that
\* returns has removed exactly the entries whose reference was reported out
\* of the roster, by the key it computed from the listed reference, and
\* left the others in place.
C28_KeyedByGetKey ==
    /\ \A i \in 1..Len(file.data) : file.data[i].key = getKey(file.data[i].value)
    /\ NoDuplicateKey(file.data)
    /\ (Paged /\ validation /\ outcome = "returned") =>
          /\ file.data = SelectSeq(pre.data, LAMBDA e : ~Stale(e))
          /\ \A c \in 1..Len(calls) :
                /\ calls[c].op = "delete"
                /\ \E e \in {pre.data[i] : i \in 1..Len(pre.data)} :
                      Stale(e) /\ calls[c].keys = <<e.key>>

C28_Witness ==
    /\ Paged /\ validation /\ outcome = "returned"
    /\ Len(pre.data) = 2
    /\ pre.data[1].value.conversation.id = "TEAM1"
    /\ pre.data[1].value.activityId = "a1"
    /\ pre.data[1].key = "_T1_TEAM1"
    /\ file.data = <<pre.data[2]>>
    /\ Len(calls) = 1

\* A team-level reference written for a message in the General channel of
\* a conversation other than the team's is held under the key of the team
C28_WitnessDerived ==
    /\ Turned
    /\ received.type = Message
    /\ received.conversation.id = "CH2"
    /\ received.teamId = "TEAM1"
    /\ HasKey(file.data, "_T1_TEAM1")
    /\ Get(file.data, "_T1_TEAM1").conversation.id = "TEAM1"
    /\ ~HasKey(file.data, "_T1_CH2")

----------------------------------------------------------------------------
(* The page of a validated listing *)

\* The indices of the listed references whose probe did not report them out
\* of the roster, in the order of the listing
RECURSIVE SurvivingIndices(_)
SurvivingIndices(n) ==
    IF n = 0 THEN <<>>
    ELSE IF ReportedNotInRoster(probes[n].probe)
         THEN SurvivingIndices(n - 1)
         ELSE Append(SurvivingIndices(n - 1), n)

\* C30: when getPagedInstallations with validation enabled returns, its
\* page holds, in the order of the listing, one installation for every
\* listed reference whose probe did not report BotNotInConversationRoster
\* and no other, each of the conversation type of its reference; the
\* entries of those references are in the store as they were, every store
\* call made is the delete of the one key of a reference reported out of
\* the roster, and the continuation token of the page is the one the
\* store's list gave.
C30_ValidatedPage ==
    (Paged /\ validation /\ outcome = "returned") =>
        /\ Len(listed) = Len(pre.data)
        /\ Len(probes) = Len(listed)
        /\ LET kept == SurvivingIndices(Len(probes))
           IN  /\ Len(result.data) = Len(kept)
               /\ \A j \in 1..Len(kept) :
                     /\ j <= Len(result.data)
                     /\ kept[j] <= Len(pre.data)
                     /\ listed[kept[j]] = pre.data[kept[j]].value
                     /\ result.data[j].conversationReference = listed[kept[j]]
                     /\ result.data[j].type =
                           listed[kept[j]].conversation.conversationType
                     /\ \E i \in 1..Len(file.data) :
                           file.data[i] = pre.data[kept[j]]
               /\ Len(file.data) = Len(kept)
               /\ Len(calls) = Len(probes) - Len(kept)
        /\ \A c \in 1..Len(calls) :
              /\ calls[c].op = "delete"
              /\ \E i \in 1..Len(probes) :
                    /\ ReportedNotInRoster(probes[i].probe)
                    /\ calls[c].keys = <<getKey(probes[i].reference)>>
        /\ result.continuationToken =
              list(pre, <<>>, Undefined).continuationToken

\* C30 witness: of two listed references the first was reported out of the
\* roster and the second, a channel's, makes the page alone
C30_Witness ==
    /\ Paged /\ validation /\ outcome = "returned"
    /\ Len(listed) = 2
    /\ ReportedNotInRoster(probes[1].probe)
    /\ probes[2].probe.error /\ ~ReportedNotInRoster(probes[2].probe)
    /\ Len(result.data) = 1
    /\ result.data[1].conversationReference = listed[2]
    /\ result.data[1].type = "channel"
    /\ file.data = <<pre.data[2]>>
    /\ calls = <<DeleteCall(<<pre.data[1].key>>)>>
    /\ result.continuationToken = ""

----------------------------------------------------------------------------
(* Store calls that overlap *)

\* write and delete await storeFileExists, then readFromFile, then
\* writeToFile; between two awaits another call may run. A call in flight
\* is the call, the await it is at, the object it will write back, and how
\* it ended.
StoreCall(call) ==
    [op |-> call.op, changes |-> call.changes, keys |-> call.keys,
     at |-> "storeFileExists", data |-> <<>>, outcome |-> "pending"]

\* The writes and deletes of the overlapping calls
ConcurrentKeys == {"_T1_C1", "_T1_TEAM1"}

ConcurrentCalls ==
    { WriteCall(<<Entry(k, v)>>) : k \in ConcurrentKeys, v \in StoreValues }
    \cup { DeleteCall(<<k>>) : k \in ConcurrentKeys }

Ended(c) == c.at = "ended"

\* The object a call makes of the object it read: Object.assign(data,
\* changes) in write, the loop of delete
Changed(c, data) ==
    IF c.op = "write" THEN ObjectAssign(data, c.changes)
    ELSE DeleteProperties(data, c.keys)

\* await this.storeFileExists() has resolved for call c
AfterStoreFileExists(c, f) ==
    IF storeFileExists(f)
    THEN [c EXCEPT !.at = "readFromFile"]
    ELSE IF c.op = "write"
         THEN [c EXCEPT !.at = "writeToFile", !.data = Changed(c, <<>>)]
         ELSE [c EXCEPT !.at = "ended", !.outcome = "resolved"]

\* await this.readFromFile() has ended for call c
AfterReadFromFile(c, f) ==
    LET r == readFromFile(f)
    IN  IF r.outcome = "resolved"
        THEN [c EXCEPT !.at = "writeToFile", !.data = Changed(c, r.data)]
        ELSE [c EXCEPT !.at = "ended", !.outcome = r.outcome]

\* The change of the call applied to what the file holds when it writes
WrittenBack_Merging(c, f) == writeToFile(Changed(c, f.data))

\* The file after writeToFile(data) of call c, which found the file f: the
\* object the call made after its read, whatever f holds by now
WrittenBack(c, f) == writeToFile(c.data)

\* await this.writeToFile(data) has resolved for call c
AfterWriteToFile(c) == [c EXCEPT !.at = "ended", !.outcome = "resolved"]

Step(i, await) == [call |-> i, await |-> await]

ConcurrentFrame ==
    UNCHANGED <<received, activity, classified, nextCalls, outcome, validation,
                listed, probes, result, args, prior>>

\* Two callers call the store, neither awaiting the other.
StartCalls ==
    \E c1 \in ConcurrentCalls, c2 \in ConcurrentCalls :
        /\ \A i \in 1..Len(calls) : Ended(calls[i])
        /\ op' = "concurrent"
        /\ pre' = file
        /\ calls' = <<StoreCall(c1), StoreCall(c2)>>
        /\ effects' = <<>>
        /\ UNCHANGED file
        /\ ConcurrentFrame

Awaiting(i, await) ==
    /\ op = "concurrent"
    /\ i \in 1..Len(calls)
    /\ calls[i].at = await

AwaitStoreFileExists ==
    \E i \in 1..2 :
        /\ Awaiting(i, "storeFileExists")
        /\ calls' = [calls EXCEPT ![i] = AfterStoreFileExists(calls[i], file)]
        /\ effects' = Append(effects, Step(i, "storeFileExists"))
        /\ UNCHANGED <<file, op, pre>>
        /\ ConcurrentFrame

AwaitReadFromFile ==
    \E i \in 1..2 :
        /\ Awaiting(i, "readFromFile")
        /\ calls' = [calls EXCEPT ![i] = AfterReadFromFile(calls[i], file)]
        /\ effects' = Append(effects, Step(i, "readFromFile"))
        /\ UNCHANGED <<file, op, pre>>
        /\ ConcurrentFrame

AwaitWriteToFile ==
    \E i \in 1..2 :
        /\ Awaiting(i, "writeToFile")
        /\ file' = WrittenBack(calls[i], file)
        /\ calls' = [calls EXCEPT ![i] = AfterWriteToFile(calls[i])]
        /\ effects' = Append(effects, Step(i, "writeToFile"))
        /\ UNCHANGED <<op, pre>>
        /\ ConcurrentFrame

NextConcurrent ==
    \/ StartCalls
    \/ AwaitStoreFileExists
    \/ AwaitReadFromFile
    \/ AwaitWriteToFile

SpecConcurrent == Init /\ [][NextConcurrent]_vars

----------------------------------------------------------------------------
(* Claims about overlapping store calls *)

\* Both calls have ended
BothEnded == op = "concurrent" /\ \A i \in 1..2 : Ended(calls[i])

\* Every await of call i ended before the first await of call j
Before(i, j) ==
    \A a, b \in 1..Len(effects) :
        (effects[a].call = i /\ effects[b].call = j) => a < b

\* Each call saw whether the file exists, and read it if it does, before
\* either wrote it back
BothReadFirst ==
    \A a, b \in 1..Len(effects) :
        (effects[a].await = "writeToFile" /\ effects[b].await # "writeToFile")
            => b < a

\* The calls that wrote the file back, in the order of their writing
Writers ==
    SelectSeq(effects, LAMBDA e : e.await = "writeToFile")

\* A call run alone on the file f
Alone(c, f) == IF c.op = "write" THEN write(f, c.changes) ELSE delete(f, c.keys)

\* Call j run after call i has ended, from the file f
OneAfterAnother(i, j, f) == Alone(calls[j], Alone(calls[i], f).file)

\* The key a call is about
KeyOf(c) == IF c.op = "write" THEN c.changes[1].key ELSE c.keys[1]

DifferentKeys == KeyOf(calls[1]) # KeyOf(calls[2])

\* The entry under key k is in f as it is in g, or in neither
SameUnder(k, f, g) ==
    /\ HasKey(f.data, k) <=> HasKey(g.data, k)
    /\ HasKey(g.data, k) => Get(f.data, k) = Get(g.data, k)

\* C24: of two store calls, each a write or a delete, started without
\* awaiting one another: when every await of one ended before the first
\* await of the other, both end as they would alone and the file is the
\* one the first and then the second, run alone, leave; when both saw the
\* file before either wrote it back, the file is what the last to write
\* would have left alone, so that, the calls being about different keys,
\* the entry of the call that wrote first is as it was before the calls: a
\* written entry is missing, a deleted entry is there again.
C24_LostUpdate ==
    BothEnded =>
        /\ \A i \in 1..2, j \in 1..2 :
              (i # j /\ Before(i, j)) =>
                  /\ calls[i].outcome = Alone(calls[i], pre).outcome
                  /\ calls[j].outcome = OneAfterAnother(i, j, pre).outcome
                  /\ file = OneAfterAnother(i, j, pre).file
        /\ (BothReadFirst /\ Writers # <<>>) =>
              /\ file = Alone(calls[Writers[Len(Writers)].call], pre).file
              /\ (Len(Writers) = 2 /\ DifferentKeys) =>
                    SameUnder(KeyOf(calls[Writers[1].call]), file, pre)

\* C24 witness: two writes about different keys both read the file before
\* either wrote, both resolved, and the entry of the first is missing
C24_Witness ==
    /\ BothEnded
    /\ BothReadFirst
    /\ DifferentKeys
    /\ pre.state = "object"
    /\ \A i \in 1..2 : calls[i].op = "write" /\ calls[i].outcome = "resolved"
    /\ Writers = <<Step(1, "writeToFile"), Step(2, "writeToFile")>>
    /\ ~HasKey(file.data, KeyOf(calls[1]))
    /\ HasKey(file.data, KeyOf(calls[2]))

\* A delete and a write about different keys overlapped, both resolved, and
\* the deleted entry is there again
C24_WitnessDeleted ==
    /\ BothEnded
    /\ BothReadFirst
    /\ DifferentKeys
    /\ calls[1].op = "delete" /\ calls[1].outcome = "resolved"
    /\ calls[2].op = "write" /\ calls[2].outcome = "resolved"
    /\ Writers = <<Step(1, "writeToFile"), Step(2, "writeToFile")>>
    /\ HasKey(pre.data, KeyOf(calls[1]))
    /\ HasKey(file.data, KeyOf(calls[1]))

\* The calls did not overlap and the file holds what both did
C24_WitnessSequential ==
    /\ BothEnded
    /\ Before(1, 2)
    /\ DifferentKeys
    /\ \A i \in 1..2 : calls[i].op = "write" /\ calls[i].outcome = "resolved"
    /\ HasKey(file.data, KeyOf(calls[1]))
    /\ HasKey(file.data, KeyOf(calls[2]))

----------------------------------------------------------------------------
(* A page of installations validated while the middleware runs *)

\* getPagedInstallations awaits the listing, then for each listed reference
\* validateInstallation and, for a reference found invalid, the delete;
\* between two awaits the adapter may run the middleware on an activity.

\* getPagedInstallations has been called and has not ended
Paging == outcome = "pending"

\* The loop is at the await named at, for the reference listed[index]
LoopAt(index, at) == [index |-> index, at |-> at]

\* The activities that arrive meanwhile: the bot installed into a personal
\* chat and into a team, removed from the chat, messaged in the chat and in
\* the General channel of the team
PagingEvents ==
    { Activity(InstallationUpdate, <<"a","d","d">>, Undefined, Undefined, Undefined,
               <<"a1", Conversation("T1", "C1", "personal")>>),
      Activity(InstallationUpdate, <<"a","d","d">>, Undefined, Undefined, Undefined,
               <<"a1", Conversation("T1", "TEAM1", "channel")>>),
      Activity(InstallationUpdate, <<"r","e","m","o","v","e">>, Undefined, Undefined,
               Undefined, <<"a1", Conversation("T1", "C1", "personal")>>),
      Activity(Message, UndefinedAction, Undefined, Undefined, Undefined,
               <<"a2", Conversation("T1", "C1", "personal")>>),
      Activity(Message, UndefinedAction, Undefined, "TEAM1", "TEAM1",
               <<"a2", Conversation("T1", "CH2", "channel")>>) }

\* The entry of the reference deleted only if it is still the listed one
PruneDelete_IfUnchanged(f, reference) ==
    IF reference \in Stored(f)
    THEN delete(f, <<getKey(reference)>>)
    ELSE [file |-> f, outcome |-> "resolved"]

\* await this.conversationReferenceStore.delete([getKey(reference)])
PruneDelete(f, reference) == delete(f, <<getKey(reference)>>)

\* The adapter runs the middleware on an activity, a page being under way
\* or not; prior holds the store calls of the turn and how it ended.
PagingTurn ==
    \E a \in PagingEvents :
        LET t == onTurn(file, a)
        IN  /\ Len(t.file.data) <= MaxStore
            /\ file' = t.file
            /\ op' = "onTurn"
            /\ received' = a
            /\ activity' = t.activity
            /\ classified' = t.classified
            /\ nextCalls' = t.nextCalls
            /\ prior' = [op |-> "onTurn", args |-> t.calls, outcome |-> t.outcome]
            /\ effects' = t.steps
            /\ UNCHANGED <<pre, calls, outcome, validation, listed, probes,
                           result, args>>

\* What the loop leaves when it has dealt with listed[index]
LoopOutcome(index) == IF index >= Len(listed) THEN "returned" ELSE "pending"

\* A caller calls getPagedInstallations; the call runs up to its first
\* await in the loop, and to its end when validation is disabled.
StartPagedInstallations ==
    /\ ~Paging
    /\ \E validationEnabled \in BOOLEAN :
          LET l == list(file, <<>>, Undefined)
              g == getPagedInstallations(file, <<>>, Undefined, FALSE,
                                         [i \in 1..Len(file.data) |-> ProbeOk])
              ended == ~validationEnabled \/ l.outcome # "resolved" \/ l.data = <<>>
          IN  /\ validation' = validationEnabled
              /\ listed' = g.listed
              /\ outcome' = IF ended THEN g.outcome ELSE "pending"
              /\ result' = IF ended THEN g.result
                           ELSE [data |-> <<>>,
                                 continuationToken |-> l.continuationToken]
              /\ args' = LoopAt(1, "validateInstallation")
    /\ op' = "getPagedInstallations"
    /\ pre' = file
    /\ calls' = <<>>
    /\ probes' = <<>>
    /\ received' = NoActivity
    /\ activity' = NoActivity
    /\ classified' = Unknown
    /\ nextCalls' = 0
    /\ prior' = NoPrior
    /\ effects' = <<>>
    /\ UNCHANGED file

\* valid = await this.validateInstallation(reference) has ended: a valid
\* reference is pushed, an invalid one goes to the delete.
AwaitValidateInstallation ==
    /\ Paging
    /\ args.at = "validateInstallation"
    /\ \E probe \in PagedProbeOutcomes :
          LET reference == listed[args.index]
              valid == validateInstallation(reference, probe).isValid
          IN  /\ probes' = Append(probes, Probe(reference, probe))
              /\ result' = IF valid
                           THEN [result EXCEPT
                                   !.data = Append(@, TeamsBotInstallation(reference))]
                           ELSE result
              /\ args' = IF valid THEN LoopAt(args.index + 1, "validateInstallation")
                         ELSE LoopAt(args.index, "delete")
              /\ outcome' = IF valid THEN LoopOutcome(args.index) ELSE "pending"
    /\ op' = "validateInstallation"
    /\ received' = NoActivity
    /\ activity' = NoActivity
    /\ classified' = Unknown
    /\ nextCalls' = 0
    /\ prior' = NoPrior
    /\ effects' = <<>>
    /\ UNCHANGED <<file, pre, calls, validation, listed>>

\* The delete of the invalid reference has ended.
AwaitDelete ==
    /\ Paging
    /\ args.at = "delete"
    /\ LET reference == listed[args.index]
           d == PruneDelete(file, reference)
       IN  /\ file' = d.file
           /\ calls' = Append(calls, DeleteCall(<<getKey(reference)>>))
           /\ outcome' = IF d.outcome = "resolved" THEN LoopOutcome(args.index)
                         ELSE d.outcome
    /\ args' = LoopAt(args.index + 1, "validateInstallation")
    /\ op' = "delete"
    /\ UNCHANGED <<pre, received, activity, classified, nextCalls, validation,
                   listed, probes, result, prior, effects>>

NextPaging ==
    \/ PagingTurn
    \/ StartPagedInstallations
    \/ AwaitValidateInstallation
    \/ AwaitDelete

SpecPaging == Init /\ [][NextPaging]_vars

----------------------------------------------------------------------------
(* Claims about pruning while the middleware runs *)

\* The keys under which the turn held in prior wrote a reference
WrittenKeys ==
    { prior.args[c].changes[1].key :
        c \in { x \in 1..Len(prior.args) : prior.args[x].op = "write" } }

\* The pruning delete has just ended, and since the probe of its reference
\* the middleware ran, its last turn writing a reference under the key
\* deleted
PrunedAfterWrite ==
    /\ op = "delete"
    /\ prior.op = "onTurn"
    /\ prior.outcome = "returned"
    /\ calls[Len(calls)].keys[1] \in WrittenKeys

\* C29: when, between the probe that reported a listed reference out of the
\* roster and the delete that prunes it, the last turn of the middleware
\* was for an installation or a message that wrote a reference under the
\* same key, the delete removes that reference: the last probe is the one
\* of the listed reference and reported BotNotInConversationRoster, the
\* last event was classified CurrentBotInstalled or CurrentBotMessaged, and
\* the store holds no entry under the key.
C29_PruneRemovesFresh ==
    PrunedAfterWrite =>
        /\ ReportedNotInRoster(probes[Len(probes)].probe)
        /\ getKey(probes[Len(probes)].reference) = calls[Len(calls)].keys[1]
        /\ classified \in {CurrentBotInstalled, CurrentBotMessaged}
        /\ effects # <<>> /\ HasKey(effects[1].file.data, calls[Len(calls)].keys[1])
        /\ ~HasKey(file.data, calls[Len(calls)].keys[1])

\* C29 witness: the chat was listed and reported out of the roster, the bot
\* was installed into it again, and the delete removed the new reference
C29_Witness ==
    /\ PrunedAfterWrite
    /\ classified = CurrentBotInstalled
    /\ received.conversation.id = "C1"
    /\ calls[Len(calls)].keys = <<"_T1_C1">>
    /\ HasKey(pre.data, "_T1_C1")
    /\ HasKey(effects[1].file.data, "_T1_C1")
    /\ ~HasKey(file.data, "_T1_C1")

\* The same after a message in the General channel of the team
C29_WitnessMessage ==
    /\ PrunedAfterWrite
    /\ classified = CurrentBotMessaged
    /\ received.conversation.id = "CH2"
    /\ calls[Len(calls)].keys = <<"_T1_TEAM1">>
    /\ Get(effects[1].file.data, "_T1_TEAM1").activityId = "a2"
    /\ ~HasKey(file.data, "_T1_TEAM1")

====
